---- MODULE Spec2Model ----
(***************************************************************************)
(* Fashion Studio ETL pipeline: the scraper (utils/extract.py) and the     *)
(* transform stage (utils/transform.py) as state machines.                 *)
(*                                                                         *)
(* Text is a sequence of one-character strings.  A Python value is a       *)
(* tagged tuple: <<"str", chars>>, <<"int", n>>, <<"float", n>>,           *)
(* <<"None">>, <<"NaN">>.  A dict is a function from key names to values.  *)
(* An exception is a record [kind, msg] where msg is its str() as text     *)
(* pieces; a call result is <<"ok", value>> or <<"raise", exception>>.     *)
(***************************************************************************)
EXTENDS Integers, Sequences, FiniteSets, TLC

VARIABLES pc, calls, net, clock, start_page, end_page, page_num, timestamp, all_products, served, outcome, raw_data, clean_df, kept, session, args, results, exit_code

vars == <<pc, calls, net, clock, start_page, end_page, page_num, timestamp, all_products, served, outcome, raw_data, clean_df, kept, session, args, results, exit_code>>

(***************************************************************************)
(* Bounds of the model                                                     *)
(***************************************************************************)
MaxCalls == 1

MaxPages == 3

MaxNodes == 3

MaxRecords == 2

MaxText == 3

MaxDetails == 3

PageMargin == 2

(***************************************************************************)
(* Python values                                                           *)
(***************************************************************************)
None == <<"None">>

NaN == <<"NaN">>

PyStr(s) == <<"str", s>>

PyInt(n) == <<"int", n>>

IsStr(v) == v[1] = "str"

IsInt(v) == v[1] = "int"

Ok(v) == <<"ok", v>>

Raise(e) == <<"raise", e>>

IsOk(r) == r[1] = "ok"

IsRaise(r) == r[1] = "raise"

Exc(kind, msg) == [kind |-> kind, msg |-> msg]

\* the exception classes involved and their direct base class
BaseClass == [ValueError |-> "Exception", KeyError |-> "Exception", RequestException |-> "Exception", ConnectionError |-> "RequestException", HTTPError |-> "RequestException", Exception |-> "BaseException"]

RECURSIVE IsInstance(_, _)
IsInstance(kind, class) == IF kind = class THEN TRUE ELSE IF kind \in DOMAIN BaseClass THEN IsInstance(BaseClass[kind], class) ELSE FALSE

(***************************************************************************)
(* Text helpers                                                            *)
(***************************************************************************)
Digits == {"0", "1", "2", "3", "4", "5", "6", "7", "8", "9"}

DigitChar == <<"0", "1", "2", "3", "4", "5", "6", "7", "8", "9">>

Whitespace == {" ", "\t", "\n"}

RECURSIVE NatStr(_)
NatStr(n) == IF n < 10 THEN <<DigitChar[n + 1]>> ELSE NatStr(n \div 10) \o <<DigitChar[(n % 10) + 1]>>

\* str() / f-string formatting of an int or of text
IntStr(n) == IF n < 0 THEN <<"-">> \o NatStr(0 - n) ELSE NatStr(n)

Format(v) == IF IsInt(v) THEN IntStr(v[2]) ELSE v[2]

\* int() of a run of decimal digits
DigitValue(c) == CHOOSE d \in 0..9 : DigitChar[d + 1] = c

RECURSIVE NumeralValue(_)
NumeralValue(s) == IF s = <<>> THEN 0 ELSE 10 * NumeralValue(SubSeq(s, 1, Len(s) - 1)) + DigitValue(s[Len(s)])

\* Python's `sub in s`
Contains(s, sub) == \E i \in 0..(Len(s) - Len(sub)) : SubSeq(s, i + 1, i + Len(sub)) = sub

RECURSIVE LStrip(_)
LStrip(s) == IF s # <<>> /\ Head(s) \in Whitespace THEN LStrip(Tail(s)) ELSE s

RECURSIVE RStrip(_)
RStrip(s) == IF s # <<>> /\ s[Len(s)] \in Whitespace THEN RStrip(SubSeq(s, 1, Len(s) - 1)) ELSE s

Strip(s) == RStrip(LStrip(s))

(***************************************************************************)
(* FashionStudioScraper.fetch_page                                         *)
(***************************************************************************)
BASE_URL == <<"https://fashion-studio.dicoding.dev/">>

FIRST_PAGE == 1

LAST_PAGE == 50

\* the address requested for a page number accepted by fetch_page
FetchUrlNoNumber(page_number) == IF page_number = 1 THEN BASE_URL ELSE BASE_URL \o <<"p", "a", "g", "e">>

FetchUrl(page_number) == IF page_number = 1 THEN BASE_URL ELSE BASE_URL \o <<"p", "a", "g", "e">> \o IntStr(page_number)

InvalidPageArg(page) == ~IsInt(page) \/ page[2] < FIRST_PAGE \/ page[2] > LAST_PAGE

\* what the remote site does with one GET: a body, a transport error, or an error status
ServerFails == {<<"ConnectionError">>, <<"HTTPError">>}

ServerCause(srv) == IF srv[1] = "ConnectionError" THEN <<"Connection failed">> ELSE <<"404 Client Error">>

\* the body of the try block: the result, or the exception raised inside it
FetchBody(page, srv) == IF InvalidPageArg(page) THEN Raise(Exc("ValueError", <<"Invalid page number: ">> \o Format(page) \o <<". Must be between 1 and 50.">>)) ELSE IF srv \in ServerFails THEN Raise(Exc(srv[1], ServerCause(srv))) ELSE Ok(srv[2])

\* the two except clauses, tried in order
FetchHandlersSwapped(page, r) == IF IsOk(r) THEN r ELSE IF IsInstance(r[2].kind, "Exception") THEN Raise(Exc("Exception", <<"Unexpected error fetching page ">> \o Format(page) \o <<": ">> \o r[2].msg)) ELSE Raise(Exc("RequestException", <<"Failed to fetch page ">> \o Format(page) \o <<": ">> \o r[2].msg))

FetchHandlers(page, r) == IF IsOk(r) THEN r ELSE IF IsInstance(r[2].kind, "RequestException") THEN Raise(Exc("RequestException", <<"Failed to fetch page ">> \o Format(page) \o <<": ">> \o r[2].msg)) ELSE Raise(Exc("Exception", <<"Unexpected error fetching page ">> \o Format(page) \o <<": ">> \o r[2].msg))

fetch_page(page, srv) == FetchHandlers(page, FetchBody(page, srv))

\* the requests session.get issues during fetch_page(page): none when the argument is rejected
FetchRequestsRetry(page, srv) == IF InvalidPageArg(page) THEN <<>> ELSE IF srv \in ServerFails THEN <<<<"get", page[2], FetchUrl(page[2])>>, <<"get", page[2], FetchUrl(page[2])>>>> ELSE <<<<"get", page[2], FetchUrl(page[2])>>>>

FetchRequestsUnchecked(page, srv) == IF IsInt(page) THEN <<<<"get", page[2], FetchUrl(page[2])>>>> ELSE <<>>

FetchRequests(page, srv) == IF InvalidPageArg(page) THEN <<>> ELSE <<<<"get", page[2], FetchUrl(page[2])>>>>

(***************************************************************************)
(* Texts that occur in the catalog's markup                                *)
(***************************************************************************)
\* "Rating:"
L_Rating_ == <<"R", "a", "t", "i", "n", "g", ":">>

\* "Colors"
L_Colors == <<"C", "o", "l", "o", "r", "s">>

\* "Size:"
L_Size_ == <<"S", "i", "z", "e", ":">>

\* "Gender:"
L_Gender_ == <<"G", "e", "n", "d", "e", "r", ":">>

\* "Rated"
L_Rated == <<"R", "a", "t", "e", "d">>

\* "Rating"
L_Rating == <<"R", "a", "t", "i", "n", "g">>

\* "Unknown Product"
UNKNOWN_PRODUCT == <<"U", "n", "k", "n", "o", "w", "n", " ", "P", "r", "o", "d", "u", "c", "t">>

\* "T-shirt 2"
T_Tshirt == <<"T", "-", "s", "h", "i", "r", "t", " ", "2">>

\* "Hoodie 3"
T_Hoodie == <<"H", "o", "o", "d", "i", "e", " ", "3">>

\* " Hoodie 3 "
T_HoodiePadded == <<" ", "H", "o", "o", "d", "i", "e", " ", "3", " ">>

\* "Pants 16"
T_Pants == <<"P", "a", "n", "t", "s", " ", "1", "6">>

\* "$102.15"
P_102_15 == <<"$", "1", "0", "2", ".", "1", "5">>

\* "$100.00"
P_100_00 == <<"$", "1", "0", "0", ".", "0", "0">>

\* "Price Unavailable"
P_Unavailable == <<"P", "r", "i", "c", "e", " ", "U", "n", "a", "v", "a", "i", "l", "a", "b", "l", "e">>

\* "Rating: * 3.9 / 5"
R_3_9 == <<"R", "a", "t", "i", "n", "g", ":", " ", "*", " ", "3", ".", "9", " ", "/", " ", "5">>

\* "Rating: * 4.8 / 5"
R_4_8 == <<"R", "a", "t", "i", "n", "g", ":", " ", "*", " ", "4", ".", "8", " ", "/", " ", "5">>

\* "Rating: * Invalid Rating / 5"
R_Invalid == <<"R", "a", "t", "i", "n", "g", ":", " ", "*", " ", "I", "n", "v", "a", "l", "i", "d", " ", "R", "a", "t", "i", "n", "g", " ", "/", " ", "5">>

\* "Rating: Not Rated"
R_NotRated == <<"R", "a", "t", "i", "n", "g", ":", " ", "N", "o", "t", " ", "R", "a", "t", "e", "d">>

\* "Not Rated"
R_BareNotRated == <<"N", "o", "t", " ", "R", "a", "t", "e", "d">>

\* "3 Colors"
C_3 == <<"3", " ", "C", "o", "l", "o", "r", "s">>

\* "5 Colors"
C_5 == <<"5", " ", "C", "o", "l", "o", "r", "s">>

\* "8 Colors"
C_8 == <<"8", " ", "C", "o", "l", "o", "r", "s">>

\* "Size: M"
S_M == <<"S", "i", "z", "e", ":", " ", "M">>

\* "Size: S"
S_S == <<"S", "i", "z", "e", ":", " ", "S">>

\* "Size: M 3 Colors"
S_M_3Colors == <<"S", "i", "z", "e", ":", " ", "M", " ", "3", " ", "C", "o", "l", "o", "r", "s">>

\* "Gender: Women"
G_Women == <<"G", "e", "n", "d", "e", "r", ":", " ", "W", "o", "m", "e", "n">>

\* "Gender: Men"
G_Men == <<"G", "e", "n", "d", "e", "r", ":", " ", "M", "e", "n">>

\* "Unavailable"
W_Unavailable == <<"U", "n", "a", "v", "a", "i", "l", "a", "b", "l", "e">>

\* "unavailable"
W_unavailable == <<"u", "n", "a", "v", "a", "i", "l", "a", "b", "l", "e">>

\* "Invalid"
W_Invalid == <<"I", "n", "v", "a", "l", "i", "d">>

\* "Not Rated"
W_NotRated == <<"N", "o", "t", " ", "R", "a", "t", "e", "d">>

\* "Rating 4.8"
D_RatingWord == <<"R", "a", "t", "i", "n", "g", " ", "4", ".", "8">>

\* "Rating: 4 Colors"
D_RatingColors == <<"R", "a", "t", "i", "n", "g", ":", " ", "4", " ", "C", "o", "l", "o", "r", "s">>

\* "Size: M Gender: Men"
D_SizeGender == <<"S", "i", "z", "e", ":", " ", "M", " ", "G", "e", "n", "d", "e", "r", ":", " ", "M", "e", "n">>

\* "  Size:  M \t"
S_Padded == <<" ", " ", "S", "i", "z", "e", ":", " ", " ", "M", " ", "\t">>

\* "102.15"
P_Plain ==<<"1", "0", "2", ".", "1", "5">>

\* "$1,234.56"
P_Grouped == <<"$", "1", ",", "2", "3", "4", ".", "5", "6">>

\* ","
P_Comma == <<",">>

\* "3.9"
R_Plain == <<"3", ".", "9">>

\* "3"
C_Plain == <<"3">>

\* "M"
S_Plain == <<"M">>

\* "Women"
G_Plain == <<"W", "o", "m", "e", "n">>

(***************************************************************************)
(* Markup.  A page body is abstracted as the sequence of nodes that        *)
(* BeautifulSoup finds in it, in document order: product cards and other   *)
(* nodes.  The empty body is the empty sequence.  A card holds what the    *)
(* selectors of parse_product find in it: title is the text of             *)
(* h3.product-title (None when there is no such element), has_container    *)
(* tells whether div.price-container exists, span_price is the text of     *)
(* span.price inside it, flat_price the text of p.price on the card, and   *)
(* details the texts of the p elements whose style contains '777'.         *)
(***************************************************************************)
OtherNode == [kind |-> "other"]

Card(title, has_container, span_price, flat_price, details) == [kind |-> "card", title |-> title, has_container |-> has_container, span_price |-> span_price, flat_price |-> flat_price, details |-> details]

CardTshirt == Card(PyStr(T_Tshirt), TRUE, PyStr(P_102_15), None, <<R_3_9, C_3, S_M, G_Women>>)

CardPants == Card(PyStr(T_Pants), FALSE, None, PyStr(P_Unavailable), <<R_NotRated, C_8, S_S, G_Men>>)

CardUnknown == Card(PyStr(UNKNOWN_PRODUCT), TRUE, PyStr(P_100_00), None, <<R_Invalid, C_5, S_M, G_Men>>)

CardNoTitle == Card(None, TRUE, PyStr(P_102_15), None, <<R_3_9, C_3, S_M, G_Women>>)

CardEmptyTitle == Card(PyStr(<<>>), TRUE, PyStr(P_102_15), None, <<R_4_8, C_3, S_M, G_Women>>)

CardSparse == Card(PyStr(T_Hoodie), TRUE, None, PyStr(P_100_00), <<R_BareNotRated, C_3>>)

CardMixed == Card(PyStr(T_HoodiePadded), FALSE, None, None, <<R_4_8, R_3_9, S_M_3Colors, G_Women>>)

Cards == {CardTshirt, CardPants, CardUnknown, CardNoTitle, CardEmptyTitle, CardSparse, CardMixed}

Nodes == Cards \cup {OtherNode}

SeqsUpTo(S, n) == UNION {[1..k -> S] : k \in 0..n}

\* the detail fragments a card is given: fragments that match one test, several
\* tests or only the second-chance test, one of them padded with whitespace
DetailTexts == {R_3_9, R_BareNotRated, D_RatingWord, D_RatingColors, C_3, S_M_3Colors, S_Padded, D_SizeGender, G_Women}

\* the cards parse_product is tried with: every sequence of up to MaxDetails fragments
ProductCards == {Card(PyStr(T_Tshirt), TRUE, PyStr(P_102_15), None, d) : d \in SeqsUpTo(DetailTexts, MaxDetails)} \cup {CardNoTitle}

\* every argument parse_page is tried with: absent, not text, and text of up to MaxNodes nodes
Markups == {None, PyInt(404)} \cup {PyStr(m) : m \in SeqsUpTo(Nodes, MaxNodes)}

\* the bodies the site serves during a scrape
ServedBodies == {PyStr(<<>>), PyStr(<<OtherNode>>), PyStr(<<CardTshirt, CardNoTitle>>), PyStr(<<CardPants>>), PyStr(<<CardUnknown, CardTshirt>>)}

(***************************************************************************)
(* FashionStudioScraper.parse_product                                      *)
(***************************************************************************)
SetKey(d, k, v) == (k :> v) @@ d

\* element.get_text(strip=True)
GetText(s) == Strip(s)

CardPrice(card) == IF card.has_container THEN (IF card.span_price # None THEN PyStr(GetText(card.span_price[2])) ELSE None) ELSE (IF card.flat_price # None THEN PyStr(GetText(card.flat_price[2])) ELSE None)

\* one iteration of the first loop over the detail fragments
ClassifySizeFirst(text, product) == IF Contains(text, L_Rating_) THEN SetKey(product, "Rating", PyStr(text)) ELSE IF Contains(text, L_Size_) THEN SetKey(product, "Size", PyStr(text)) ELSE IF Contains(text, L_Colors) THEN SetKey(product, "Colors", PyStr(text)) ELSE IF Contains(text, L_Gender_) THEN SetKey(product, "Gender", PyStr(text)) ELSE product

ClassifyKeepFirst(text, product) == IF Contains(text, L_Rating_) THEN product @@ ("Rating" :> PyStr(text)) ELSE IF Contains(text, L_Colors) THEN product @@ ("Colors" :> PyStr(text)) ELSE IF Contains(text, L_Size_) THEN product @@ ("Size" :> PyStr(text)) ELSE IF Contains(text, L_Gender_) THEN product @@ ("Gender" :> PyStr(text)) ELSE product

Classify(text, product) == IF Contains(text, L_Rating_) THEN SetKey(product, "Rating", PyStr(text)) ELSE IF Contains(text, L_Colors) THEN SetKey(product, "Colors", PyStr(text)) ELSE IF Contains(text, L_Size_) THEN SetKey(product, "Size", PyStr(text)) ELSE IF Contains(text, L_Gender_) THEN SetKey(product, "Gender", PyStr(text)) ELSE product

RECURSIVE FirstPass(_, _)
FirstPass(details, product) == IF details = <<>> THEN product ELSE FirstPass(Tail(details), Classify(GetText(Head(details)), product))

\* one iteration of the second loop, entered only when the first found no rating
Reclassify(text, product) == IF Contains(text, L_Rated) \/ Contains(text, L_Rating) THEN SetKey(product, "Rating", PyStr(text)) ELSE product

RECURSIVE RescanRating(_, _)
RescanRating(details, product) == IF details = <<>> THEN product ELSE RescanRating(Tail(details), Reclassify(GetText(Head(details)), product))

SecondPassAlways(details, product) == RescanRating(details, product)

SecondPass(details, product) == IF "Rating" \notin DOMAIN product THEN RescanRating(details, product) ELSE product

ParseProductBodyDefaultTitle(card) == Ok(SecondPass(card.details, FirstPass(card.details, ("Title" :> (IF card.title = None THEN PyStr(UNKNOWN_PRODUCT) ELSE PyStr(GetText(card.title[2])))) @@ ("Price" :> CardPrice(card)))))

ParseProductBody(card) == IF card.title = None THEN Raise(Exc("ValueError", <<"Could not find product title">>)) ELSE Ok(SecondPass(card.details, FirstPass(card.details, ("Title" :> PyStr(GetText(card.title[2]))) @@ ("Price" :> CardPrice(card)))))

parse_product(card) == LET r == ParseProductBody(card) IN IF IsOk(r) THEN r ELSE Raise(Exc("ValueError", <<"Error parsing product card: ">> \o r[2].msg))

(***************************************************************************)
(* FashionStudioScraper.parse_page                                         *)
(***************************************************************************)
\* soup.find_all('div', class_='collection-card')
FindCards(nodes) == SelectSeq(nodes, LAMBDA n : n.kind = "card")

\* the loop over the cards: a card whose parse raises ValueError is skipped
RECURSIVE ParseCardsAbort(_, _)
ParseCardsAbort(cards, products) == IF cards = <<>> THEN Ok(products) ELSE LET r == parse_product(Head(cards)) IN IF IsOk(r) THEN ParseCardsAbort(Tail(cards), Append(products, r[2])) ELSE r

RECURSIVE ParseCards(_, _)
ParseCards(cards, products) == IF cards = <<>> THEN Ok(products) ELSE LET r == parse_product(Head(cards)) IN IF IsOk(r) THEN ParseCards(Tail(cards), Append(products, r[2])) ELSE IF IsInstance(r[2].kind, "ValueError") THEN ParseCards(Tail(cards), products) ELSE r

InvalidContent(html_content) == ~IsStr(html_content) \/ html_content[2] = <<>>

ParsePageBodyNoCardCheck(html_content) == IF InvalidContent(html_content) THEN Raise(Exc("ValueError", <<"Invalid HTML content provided">>)) ELSE ParseCards(FindCards(html_content[2]), <<>>)

ParsePageBody(html_content) == IF InvalidContent(html_content) THEN Raise(Exc("ValueError", <<"Invalid HTML content provided">>)) ELSE IF FindCards(html_content[2]) = <<>> THEN Raise(Exc("ValueError", <<"No product cards found on the page">>)) ELSE ParseCards(FindCards(html_content[2]), <<>>)

parse_page(html_content) == LET r == ParsePageBody(html_content) IN IF IsOk(r) THEN r ELSE Raise(Exc("ValueError", <<"Error parsing page: ">> \o r[2].msg))

(***************************************************************************)
(* Numbers.  A float is kept as an exact decimal <<"float", m, d>> meaning *)
(* m / 10^d, with d as small as possible; an int is <<"int", n>>.          *)
(***************************************************************************)
RECURSIVE Normalize(_, _)
Normalize(m, d) == IF d > 0 /\ m % 10 = 0 THEN Normalize(m \div 10, d - 1) ELSE <<"float", m, d>>

\* position of the first character of s that is in S, 0 when there is none
IndexOfFirst(s, S) == IF \E i \in DOMAIN s : s[i] \in S THEN CHOOSE i \in DOMAIN s : s[i] \in S /\ \A k \in 1..(i - 1) : s[k] \notin S ELSE 0

\* last position of the longest run of characters of S starting at position i (i - 1 when the run is empty)
RunEnd(s, i, S) == CHOOSE e \in (i - 1)..Len(s) : (\A k \in i..e : s[k] \in S) /\ (e = Len(s) \/ s[e + 1] \notin S)

HasDigit(t) == \E k \in DOMAIN t : t[k] \in Digits

\* float(t) for t made of digits and at most one '.', holding at least one digit
DecimalValue(t) == LET dot == IndexOfFirst(t, {"."})
                       whole == IF dot = 0 THEN t ELSE SubSeq(t, 1, dot - 1)
                       frac == IF dot = 0 THEN <<>> ELSE SubSeq(t, dot + 1, Len(t))
                   IN Normalize(NumeralValue(whole \o frac), Len(frac))

\* x * n for a float x and an int n
Times(x, n) == Normalize(x[2] * n, x[3])

\* s.replace(sub, '')
RECURSIVE Remove(_, _)
Remove(s, sub) == IF Len(s) < Len(sub) THEN s ELSE IF SubSeq(s, 1, Len(sub)) = sub THEN Remove(SubSeq(s, Len(sub) + 1, Len(s)), sub) ELSE <<Head(s)>> \o Remove(Tail(s), sub)

\* `not x or not isinstance(x, str)`: true of everything but non-empty text
NotText(v) == ~IsStr(v) \/ v[2] = <<>>

(***************************************************************************)
(* clean_price                                                             *)
(***************************************************************************)
USD_TO_IDR_RATE == 16000

PriceChars == Digits \cup {","}

\* group 1 of the leftmost match of \$?([\d,]+\.?\d*) in s, which has a character of [\d,]
PriceToken(s) == LET j == IndexOfFirst(s, PriceChars)
                     k == RunEnd(s, j, PriceChars)
                     d == IF k < Len(s) /\ s[k + 1] = "." THEN k + 1 ELSE k
                 IN SubSeq(s, j, RunEnd(s, d + 1, Digits))

RemoveCommas(t) == SelectSeq(t, LAMBDA c : c # ",")

CleanPriceBody(price_str) == IF NotText(price_str) THEN Ok(None)
    ELSE LET s == Strip(price_str[2]) IN
         IF Contains(s, W_Unavailable) \/ Contains(s, W_unavailable) THEN Ok(None)
         ELSE IF IndexOfFirst(s, PriceChars) = 0 THEN Ok(None)
         ELSE IF ~HasDigit(RemoveCommas(PriceToken(s))) THEN Raise(Exc("ValueError", <<"could not convert string to float: '">> \o RemoveCommas(PriceToken(s)) \o <<"'">>))
         ELSE Ok(Times(DecimalValue(RemoveCommas(PriceToken(s))), USD_TO_IDR_RATE))

clean_price(price_str) == LET r == CleanPriceBody(price_str) IN IF IsOk(r) THEN r ELSE Raise(Exc("ValueError", <<"Error cleaning price '">> \o Strip(price_str[2]) \o <<"': ">> \o r[2].msg))

(***************************************************************************)
(* clean_rating                                                            *)
(***************************************************************************)
NumberChars == Digits \cup {"."}

DotCount(t) == Cardinality({k \in DOMAIN t : t[k] = "."})

\* (\d+\.?\d*)\s*/\s*5 matches s from position i on
RatingMatchAt(s, i) == /\ s[i] \in Digits
    /\ LET e == RunEnd(s, i, NumberChars)
           a == RunEnd(s, e + 1, Whitespace)
           b == RunEnd(s, a + 2, Whitespace)
       IN /\ DotCount(SubSeq(s, i, e)) <= 1
          /\ a + 1 <= Len(s) /\ s[a + 1] = "/"
          /\ b + 1 <= Len(s) /\ s[b + 1] = "5"

RatingMatchesNone(s) == {}

RatingMatches(s) == {i \in DOMAIN s : RatingMatchAt(s, i)}

\* group 1 of the leftmost match of (\d+\.?\d*)\s*/\s*5
RatingToken(s) == LET i == CHOOSE m \in RatingMatches(s) : \A n \in RatingMatches(s) : m <= n IN SubSeq(s, i, RunEnd(s, i, NumberChars))

\* group 1 of the leftmost match of (\d+\.?\d*) in s, which has a digit
NumberToken(s) == LET j == IndexOfFirst(s, Digits)
                      k == RunEnd(s, j, Digits)
                      d == IF k < Len(s) /\ s[k + 1] = "." THEN k + 1 ELSE k
                  IN SubSeq(s, j, RunEnd(s, d + 1, Digits))

clean_rating(rating_str) == IF NotText(rating_str) THEN Ok(None)
    ELSE LET s == Strip(rating_str[2]) IN
         IF Contains(s, W_Invalid) \/ Contains(s, W_NotRated) THEN Ok(None)
         ELSE IF RatingMatches(s) # {} THEN Ok(DecimalValue(RatingToken(s)))
         ELSE IF IndexOfFirst(s, Digits) # 0 THEN Ok(DecimalValue(NumberToken(s)))
         ELSE Ok(None)

(***************************************************************************)
(* clean_colors, clean_size, clean_gender                                  *)
(***************************************************************************)
clean_colors(colors_str) == IF NotText(colors_str) THEN Ok(None)
    ELSE LET s == Strip(colors_str[2]) IN
         IF IndexOfFirst(s, Digits) = 0 THEN Ok(None)
         ELSE Ok(PyInt(NumeralValue(SubSeq(s, IndexOfFirst(s, Digits), RunEnd(s, IndexOfFirst(s, Digits), Digits)))))

clean_sizeNoTrim(size_str) == IF NotText(size_str) THEN Ok(None)
    ELSE LET size == Remove(Strip(size_str[2]), L_Size_) IN IF size # <<>> THEN Ok(PyStr(size)) ELSE Ok(None)

clean_size(size_str) == IF NotText(size_str) THEN Ok(None)
    ELSE LET size == Strip(Remove(Strip(size_str[2]), L_Size_)) IN IF size # <<>> THEN Ok(PyStr(size)) ELSE Ok(None)

clean_gender(gender_str) == IF NotText(gender_str) THEN Ok(None)
    ELSE LET gender == Strip(Remove(Strip(gender_str[2]), L_Gender_)) IN IF gender # <<>> THEN Ok(PyStr(gender)) ELSE Ok(None)

(***************************************************************************)
(* transform_data.  A DataFrame is [cols, rows]: the set of column names   *)
(* and the rows in order, each row [idx, row] with its index label and     *)
(* its cells.  The argument is None or <<"list", records>>.                *)
(***************************************************************************)
IsNull(v) == v = None \/ v = NaN

FrameColumns(records) == UNION {DOMAIN records[i] : i \in DOMAIN records}

\* pd.DataFrame(data): one row per record, NaN where the record lacks the column
DataFrame(records) == [cols |-> FrameColumns(records), rows |-> [i \in DOMAIN records |-> [idx |-> i - 1, row |-> [c \in FrameColumns(records) |-> IF c \in DOMAIN records[i] THEN records[i][c] ELSE NaN]]]]

KeyError(col) == Raise(Exc("KeyError", <<"'", col, "'">>))

FirstOf(S) == CHOOSE m \in S : \A n \in S : m <= n

\* the cleaner transform_data applies to each column
Cleaner(col, v) == CASE col = "Price" -> clean_price(v) [] col = "Rating" -> clean_rating(v) [] col = "Colors" -> clean_colors(v) [] col = "Size" -> clean_size(v) [] col = "Gender" -> clean_gender(v)

\* df[col] = df[col].apply(clean_...): df[col] raises KeyError, and an error of the cleaner on a cell propagates
AssignColumn(df, col, cleaned) == IF \E i \in DOMAIN cleaned : IsRaise(cleaned[i]) THEN cleaned[FirstOf({i \in DOMAIN cleaned : IsRaise(cleaned[i])})]
    ELSE Ok([df EXCEPT !.rows = [i \in DOMAIN df.rows |-> [df.rows[i] EXCEPT !.row[col] = cleaned[i][2]]]])

ApplyColumn(df, col) == IF col \notin df.cols THEN KeyError(col) ELSE AssignColumn(df, col, [i \in DOMAIN df.rows |-> Cleaner(col, df.rows[i].row[col])])

\* the five apply statements in order; the first that raises ends the try block
RECURSIVE CleanColumns(_, _)
CleanRest(r, cols) == IF IsRaise(r) THEN r ELSE CleanColumns(r[2], cols)

CleanColumns(df, cols) == IF cols = <<>> THEN Ok(df) ELSE CleanRest(ApplyColumn(df, Head(cols)), Tail(cols))

cleaned_columns == <<"Price", "Rating", "Colors", "Size", "Gender">>

\* df[df['Title'] != 'Unknown Product']
TitleFilterNone(rows) == rows

TitleFilter(rows) == SelectSeq(rows, LAMBDA x : x.row["Title"] # PyStr(UNKNOWN_PRODUCT))

\* df.dropna()
DropNaNone(rows) == rows

DropNa(rows) == SelectSeq(rows, LAMBDA x : \A c \in DOMAIN x.row : ~IsNull(x.row[c]))

\* df.drop_duplicates(): of equal rows the first is kept
DropDuplicatesNone(rows) == rows

DropDuplicates(rows) == LET keep == {i \in DOMAIN rows : \A j \in 1..(i - 1) : rows[j].row # rows[i].row}
                            F[i \in 0..Len(rows)] == IF i = 0 THEN <<>> ELSE IF i \in keep THEN Append(F[i - 1], rows[i]) ELSE F[i - 1]
                        IN F[Len(rows)]

\* astype(str), astype(float), astype(int) of a non-null cell
ToStr(v) == IF IsInt(v) THEN PyStr(IntStr(v[2])) ELSE v

ToFloat(v) == IF IsInt(v) THEN <<"float", v[2], 0>> ELSE v

RECURSIVE Pow10(_)
Pow10(d) == IF d = 0 THEN 1 ELSE 10 * Pow10(d - 1)

ToInt(v) == IF v[1] = "float" THEN PyInt(v[2] \div Pow10(v[3])) ELSE v

AsTypes(row) == [c \in DOMAIN row |-> IF c \in {"Title", "Size", "Gender"} THEN ToStr(row[c]) ELSE IF c \in {"Price", "Rating"} THEN ToFloat(row[c]) ELSE IF c = "Colors" THEN ToInt(row[c]) ELSE row[c]]

columns_order == <<"Title", "Price", "Rating", "Colors", "Size", "Gender", "timestamp">>

ColumnSet == {columns_order[i] : i \in DOMAIN columns_order}

OutputDtypes == [Title |-> "object", Price |-> "float64", Rating |-> "float64", Colors |-> "int64", Size |-> "object", Gender |-> "object", timestamp |-> "object"]

TypeAndOrderNoProjection(cols, rows) == IF ~(ColumnSet \subseteq cols) THEN KeyError(columns_order[FirstOf({i \in DOMAIN columns_order : columns_order[i] \notin cols})])
    ELSE Ok([i \in DOMAIN rows |-> [idx |-> rows[i].idx, row |-> AsTypes(rows[i].row)]])

\* the try block up to the type coercion: the surviving rows with their index labels
\* astype on the six typed columns, then df[columns_order]
TypeAndOrder(cols, rows) == IF ~(ColumnSet \subseteq cols) THEN KeyError(columns_order[FirstOf({i \in DOMAIN columns_order : columns_order[i] \notin cols})])
    ELSE Ok([i \in DOMAIN rows |-> [idx |-> rows[i].idx, row |-> [c \in ColumnSet |-> AsTypes(rows[i].row)[c]]]])

\* the statements after the five apply calls
FilterRows(cleaned) == IF IsRaise(cleaned) THEN cleaned
    ELSE IF "Title" \notin cleaned[2].cols THEN KeyError("Title")
    ELSE TypeAndOrder(cleaned[2].cols, DropDuplicates(DropNa(TitleFilter(cleaned[2].rows))))

TransformRows(data) == IF data = None \/ data[1] # "list" \/ data[2] = <<>> THEN Raise(Exc("ValueError", <<"Input data must be a non-empty list">>))
    ELSE FilterRows(CleanColumns(DataFrame(data[2]), cleaned_columns))

\* the frame returned (columns fixed, index reset), or the error re-raised by the handlers
TransformHandlers(r) == IF IsOk(r) THEN Ok([columns |-> columns_order, dtypes |-> OutputDtypes, rows |-> [i \in DOMAIN r[2] |-> r[2][i].row]])
    ELSE IF IsInstance(r[2].kind, "ValueError") THEN Raise(Exc("ValueError", <<"Validation error during transformation: ">> \o r[2].msg))
    ELSE Raise(Exc("Exception", <<"Transformation failed: ">> \o r[2].msg))

transform_data(data) == TransformHandlers(TransformRows(data))

\* the index labels of the returned rows before reset_index(drop=True): positions in the input
IndexLabels(r) == IF IsOk(r) THEN [i \in DOMAIN r[2] |-> r[2][i].idx] ELSE <<>>

KeptIndex(data) == IndexLabels(TransformRows(data))

(***************************************************************************)
(* Raw records handed to transform_data: what parse_product makes of the   *)
(* cards, stamped by a run, and records written by hand as in the tests.   *)
(***************************************************************************)
RunStamps == {PyStr(<<"0">>), PyStr(<<"1">>)}

Record(title, price, rating, colors, size, gender) == [Title |-> PyStr(title), Price |-> PyStr(price), Rating |-> PyStr(rating), Colors |-> PyStr(colors), Size |-> PyStr(size), Gender |-> PyStr(gender)]

HandRecords == {Record(T_Tshirt, P_Plain, R_Plain, C_Plain, S_Plain, G_Plain), Record(UNKNOWN_PRODUCT, P_102_15, R_3_9, C_3, S_M, G_Women), Record(T_Hoodie, P_Comma, R_4_8, C_3, S_M, G_Men), Record(T_Hoodie, P_Grouped, R_4_8, C_3, S_M, G_Men)}

ParsedRecords == {parse_product(c)[2] : c \in {k \in Cards : k.title # None}}

\* records that carry a key beyond the seven: the same product under two values of 'Brand'
ExtraKeyRecords == {SetKey(SetKey(parse_product(CardTshirt)[2], "timestamp", PyStr(<<"0">>)), "Brand", PyStr(<<b>>)) : b \in {"A", "B"}}

\* every record stamped by the first run, one card's record stamped by each run, and the records with an extra key
RawRecords == {SetKey(p, "timestamp", PyStr(<<"0">>)) : p \in ParsedRecords \cup HandRecords} \cup {SetKey(parse_product(CardTshirt)[2], "timestamp", ts) : ts \in RunStamps} \cup ExtraKeyRecords

\* a record of an already clean dataset: the row transform_data returns for the raw record r
CleanOf(r) == transform_data(<<"list", <<r>>>>)[2].rows[1]

CleanRecords == {CleanOf(SetKey(parse_product(CardTshirt)[2], "timestamp", PyStr(<<"0">>))), CleanOf(SetKey(Record(T_Hoodie, P_Grouped, R_4_8, C_3, S_M, G_Men), "timestamp", PyStr(<<"0">>)))}

TransformInputs == {None, <<"list", <<>>>>} \cup {<<"list", s>> : s \in SeqsUpTo(RawRecords \cup CleanRecords, MaxRecords) \ {<<>>}}

(***************************************************************************)
(* FashionStudioScraper.scrape_all_pages                                   *)
(***************************************************************************)
\* clock ticks per second: time.sleep(0.5) takes one tick, and so does one GET
TicksPerSecond == 2

\* datetime.now().strftime("%Y-%m-%d %H:%M:%S"): the wall clock cut to whole seconds
Strftime(now) == PyStr(NatStr(now \div TicksPerSecond))

ScrapeRangeInvalidNoOrder(s, e) == s < FIRST_PAGE \/ e > LAST_PAGE

ScrapeRangeInvalid(s, e) == s < FIRST_PAGE \/ e > LAST_PAGE \/ s > e

\* fetch_page then parse_page inside the per-page try block
PageResult(page, srv) == LET f == fetch_page(PyInt(page), srv) IN IF IsOk(f) THEN parse_page(f[2]) ELSE f

\* product['timestamp'] = timestamp, for each product of the page
StampNow(products, run_timestamp, now) == [i \in 1..Len(products) |-> SetKey(products[i], "timestamp", Strftime(now))]

Stamp(products, run_timestamp, now) == [i \in 1..Len(products) |-> SetKey(products[i], "timestamp", run_timestamp)]

\* time.sleep(0.5) is the last statement of the try block, guarded by page_num < end_page
PageSleeps(r, page, e) == IF IsOk(r) /\ page < e THEN <<<<"sleep">>>> ELSE <<>>

(***************************************************************************)
(* validate_transformed_data, on a frame transform_data returned           *)
(***************************************************************************)
ValidateBodyTypesFirst(df) == IF df.rows = <<>> \/ df.columns = <<>> THEN Raise(Exc("ValueError", <<"DataFrame is empty or None">>))
    ELSE IF ~(ColumnSet \subseteq {df.columns[i] : i \in DOMAIN df.columns}) THEN Raise(Exc("ValueError", <<"Missing required columns">>))
    ELSE IF df.dtypes["Price"] # "float64" THEN Raise(Exc("ValueError", <<"Price column should be float">>))
    ELSE IF df.dtypes["Rating"] # "float64" THEN Raise(Exc("ValueError", <<"Rating column should be float">>))
    ELSE IF df.dtypes["Colors"] \notin {"int64", "int32"} THEN Raise(Exc("ValueError", <<"Colors column should be int">>))
    ELSE IF \E i \in DOMAIN df.rows : \E c \in DOMAIN df.rows[i] : IsNull(df.rows[i][c]) THEN Raise(Exc("ValueError", <<"DataFrame contains null values">>))
    ELSE IF \E i, j \in DOMAIN df.rows : i < j /\ df.rows[i] = df.rows[j] THEN Raise(Exc("ValueError", <<"DataFrame contains duplicate rows">>))
    ELSE IF \E i \in DOMAIN df.rows : df.rows[i]["Title"] = PyStr(UNKNOWN_PRODUCT) THEN Raise(Exc("ValueError", <<"DataFrame contains 'Unknown Product' entries">>))
    ELSE Ok(TRUE)

ValidateBody(df) == IF df.rows = <<>> \/ df.columns = <<>> THEN Raise(Exc("ValueError", <<"DataFrame is empty or None">>))
    ELSE IF ~(ColumnSet \subseteq {df.columns[i] : i \in DOMAIN df.columns}) THEN Raise(Exc("ValueError", <<"Missing required columns">>))
    ELSE IF \E i \in DOMAIN df.rows : \E c \in DOMAIN df.rows[i] : IsNull(df.rows[i][c]) THEN Raise(Exc("ValueError", <<"DataFrame contains null values">>))
    ELSE IF \E i, j \in DOMAIN df.rows : i < j /\ df.rows[i] = df.rows[j] THEN Raise(Exc("ValueError", <<"DataFrame contains duplicate rows">>))
    ELSE IF \E i \in DOMAIN df.rows : df.rows[i]["Title"] = PyStr(UNKNOWN_PRODUCT) THEN Raise(Exc("ValueError", <<"DataFrame contains 'Unknown Product' entries">>))
    ELSE IF df.dtypes["Price"] # "float64" THEN Raise(Exc("ValueError", <<"Price column should be float">>))
    ELSE IF df.dtypes["Rating"] # "float64" THEN Raise(Exc("ValueError", <<"Rating column should be float">>))
    ELSE IF df.dtypes["Colors"] \notin {"int64", "int32"} THEN Raise(Exc("ValueError", <<"Colors column should be int">>))
    ELSE Ok(TRUE)

ValidateHandler(r) == IF IsOk(r) THEN r ELSE Raise(Exc("ValueError", <<"Data validation failed: ">> \o r[2].msg))

validate_transformed_data(df) == ValidateHandler(ValidateBody(df))

\* validate_transformed_data(None): `df is None` raises before the frame is looked at
validate_absent == ValidateHandler(Raise(Exc("ValueError", <<"DataFrame is empty or None">>)))

(***************************************************************************)
(* Frames handed to validate_transformed_data: rows that are clean, hold a *)
(* null, the sentinel title or both, under all seven columns or two of     *)
(* them, with the column types transform_data gives or others.             *)
(***************************************************************************)
GoodRow == CleanOf(SetKey(parse_product(CardTshirt)[2], "timestamp", PyStr(<<"0">>)))

OtherRow == CleanOf(SetKey(Record(T_Hoodie, P_Grouped, R_4_8, C_3, S_M, G_Men), "timestamp", PyStr(<<"0">>)))

NullRow == [GoodRow EXCEPT !["Rating"] = NaN]

SentinelRow == [GoodRow EXCEPT !["Title"] = PyStr(UNKNOWN_PRODUCT)]

NullSentinelRow == [SentinelRow EXCEPT !["Size"] = None]

FrameRows == {GoodRow, OtherRow, NullRow, SentinelRow, NullSentinelRow}

FrameColumnOrders == {columns_order, <<"Title", "Price">>, <<>>}

FrameDtypes == {[OutputDtypes EXCEPT !["Price"] = p, !["Rating"] = r, !["Colors"] = c] : p \in {"float64", "float32", "object"}, r \in {"float64", "int64"}, c \in {"int64", "int32", "int16", "float64"}}

\* the frame with these columns: rows and types cut down to them
Frame(cols, rows, dtypes) == [columns |-> cols, dtypes |-> [c \in {cols[k] : k \in DOMAIN cols} |-> dtypes[c]], rows |-> [i \in DOMAIN rows |-> [c \in {cols[k] : k \in DOMAIN cols} |-> rows[i][c]]]]

ValidateFrames == {Frame(cols, rows, dtypes) : cols \in FrameColumnOrders, rows \in SeqsUpTo(FrameRows, MaxRecords), dtypes \in FrameDtypes}

(***************************************************************************)
(* load_data and the three destinations.  io is what the destination's     *)
(* input/output does: "ok" or "fail".                                      *)
(***************************************************************************)
\* "products.csv"
F_products_csv == <<"p", "r", "o", "d", "u", "c", "t", "s", ".", "c", "s", "v">>

\* "products.txt"
F_products_txt == <<"p", "r", "o", "d", "u", "c", "t", "s", ".", "t", "x", "t">>

\* ".csv"
X_csv == <<".", "c", "s", "v">>

\* "sheet-id"
SHEET_ID == <<"s", "h", "e", "e", "t", "-", "i", "d">>

\* "postgresql://db"
DB_URL == <<"p", "o", "s", "t", "g", "r", "e", "s", "q", "l", ":", "/", "/", "d", "b">>

EndsWith(s, suffix) == Len(s) >= Len(suffix) /\ SubSeq(s, Len(s) - Len(suffix) + 1, Len(s)) = suffix

\* Python truth of an optional text argument
Truthy(v) == v # None /\ v # PyStr(<<>>)

load_to_csv(df, filename, io) == IF df.rows = <<>> THEN Raise(Exc("ValueError", <<"Validation error: ", "DataFrame is empty or None">>))
    ELSE IF ~IsStr(filename) \/ ~EndsWith(filename[2], X_csv) THEN Raise(Exc("ValueError", <<"Validation error: ", "Filename must be a string ending with '.csv'">>))
    ELSE IF io = "fail" THEN Raise(Exc("IOError", <<"Error writing to file: ">>))
    ELSE Ok(filename)

load_to_google_sheets(df, spreadsheet_id, io) == IF df.rows = <<>> THEN Raise(Exc("ValueError", <<"Validation error: ", "DataFrame is empty or None">>))
    ELSE IF ~Truthy(spreadsheet_id) \/ ~IsStr(spreadsheet_id) THEN Raise(Exc("ValueError", <<"Validation error: ", "Invalid spreadsheet_id">>))
    ELSE IF io = "fail" THEN Raise(Exc("Exception", <<"Failed to save to Google Sheets: ">>))
    ELSE Ok(TRUE)

load_to_postgresql(df, db_url, io) == IF df.rows = <<>> THEN Raise(Exc("ValueError", <<"Validation error: ", "DataFrame is empty or None">>))
    ELSE IF io = "fail" THEN Raise(Exc("Exception", <<"Failed to save to PostgreSQL: ">>))
    ELSE Ok(TRUE)

\* results[dest] = {'success': True, ...} or {'success': False, 'error': str(e)}
DestStatus(r) == IF IsOk(r) THEN [success |-> TRUE, error |-> <<>>] ELSE [success |-> FALSE, error |-> r[2].msg]

\* the destinations load_data attempts: CSV always, the others when their argument is given
Requested(a) == {"csv"} \cup (IF Truthy(a.google_sheets_id) THEN {"google_sheets"} ELSE {}) \cup (IF Truthy(a.postgresql_url) THEN {"postgresql"} ELSE {})

LoadTo(dest, df, a, io) == CASE dest = "csv" -> load_to_csv(df, a.csv_filename, io["csv"])
    [] dest = "google_sheets" -> load_to_google_sheets(df, a.google_sheets_id, io["google_sheets"])
    [] dest = "postgresql" -> load_to_postgresql(df, a.postgresql_url, io["postgresql"])

load_data(df, a, io) == IF df.rows = <<>> THEN Raise(Exc("ValueError", <<"Load failed: ", "DataFrame is empty or None">>))
    ELSE Ok([dest \in Requested(a) |-> DestStatus(LoadTo(dest, df, a, io))])

(***************************************************************************)
(* Arguments the field cleaners are called with: absent, values that are   *)
(* not text, the texts of the pages and tests, and every text of up to     *)
(* MaxText characters over CleanAlphabet.                                  *)
(***************************************************************************)
\* "$10 Unavailable"
P_10_Unavailable == <<"$", "1", "0", " ", "U", "n", "a", "v", "a", "i", "l", "a", "b", "l", "e">>

\* "$10 unavailable"
P_10_unavailable == <<"$", "1", "0", " ", "u", "n", "a", "v", "a", "i", "l", "a", "b", "l", "e">>

\* "$10 UNAVAILABLE"
P_10_UNAVAILABLE == <<"$", "1", "0", " ", "U", "N", "A", "V", "A", "I", "L", "A", "B", "L", "E">>

\* "Price UNAVAILABLE"
P_UNAVAILABLE == <<"P", "r", "i", "c", "e", " ", "U", "N", "A", "V", "A", "I", "L", "A", "B", "L", "E">>

\* "TBD, call us"
P_TbdComma == <<"T", "B", "D", ",", " ", "c", "a", "l", "l", " ", "u", "s">>

\* "USD 1,234.56 or 5"
P_TwoTokens == <<"U", "S", "D", " ", "1", ",", "2", "3", "4", ".", "5", "6", " ", "o", "r", " ", "5">>

\* "free"
P_NoToken == <<"f", "r", "e", "e">>

\* "Rating: * 7.5 / 5"
R_7_5 == <<"R", "a", "t", "i", "n", "g", ":", " ", "*", " ", "7", ".", "5", " ", "/", " ", "5">>

\* "Rated 2 times: 3.9/5"
R_EarlierNumber == <<"R", "a", "t", "e", "d", " ", "2", " ", "t", "i", "m", "e", "s", ":", " ", "3", ".", "9", "/", "5">>

\* "4.5 stars"
R_Bare == <<"4", ".", "5", " ", "s", "t", "a", "r", "s">>

\* "Rating: none"
R_NoNumber == <<"R", "a", "t", "i", "n", "g", ":", " ", "n", "o", "n", "e">>

\* "size: M"
S_Lower == <<"s", "i", "z", "e", ":", " ", "M">>

\* "Size:"
S_LabelOnly == <<"S", "i", "z", "e", ":">>

\* " Size:  "
S_LabelBlank == <<" ", "S", "i", "z", "e", ":", " ", " ">>

\* "Size: M Size: L"
S_Twice == <<"S", "i", "z", "e", ":", " ", "M", " ", "S", "i", "z", "e", ":", " ", "L">>

\* "SizSize:e: M"
S_Nested == <<"S", "i", "z", "S", "i", "z", "e", ":", "e", ":", " ", "M">>

\* "M Size:"
S_Suffix == <<"M", " ", "S", "i", "z", "e", ":">>

\* "  X L  "
S_Spaced == <<" ", " ", "X", " ", "L", " ", " ">>

\* "   "
S_Blank == <<" ", " ", " ">>

\* " Gender:  Men\n"
G_Padded == <<" ", "G", "e", "n", "d", "e", "r", ":", " ", " ", "M", "e", "n", "\n">>

\* "gender: Men"
G_Lower == <<"g", "e", "n", "d", "e", "r", ":", " ", "M", "e", "n">>

\* "Gender:"
G_LabelOnly == <<"G", "e", "n", "d", "e", "r", ":">>

\* "Gender: Men Gender: Women"
G_Twice == <<"G", "e", "n", "d", "e", "r", ":", " ", "M", "e", "n", " ", "G", "e", "n", "d", "e", "r", ":", " ", "W", "o", "m", "e", "n">>

\* "GendGender:er: Men"
G_Nested == <<"G", "e", "n", "d", "G", "e", "n", "d", "e", "r", ":", "e", "r", ":", " ", "M", "e", "n">>

\* "Unisex Gender:"
G_Suffix == <<"U", "n", "i", "s", "e", "x", " ", "G", "e", "n", "d", "e", "r", ":">>

\* texts that carry the label of clean_size or clean_gender in every position and case
LabelTexts == {S_Padded, S_Lower, S_LabelOnly, S_LabelBlank, S_Twice, S_Nested, S_Suffix, S_Spaced, S_Blank, G_Padded, G_Lower, G_LabelOnly, G_Twice, G_Nested, G_Suffix}

CleanAlphabet == {"$", "1", "5", ",", ".", "/", " ", "x"}

PageTexts == {P_102_15, P_100_00, P_Unavailable, P_Plain, P_Grouped, P_Comma, R_3_9, R_4_8, R_Invalid, R_NotRated, R_BareNotRated, R_Plain, C_3, C_5, C_8, C_Plain, S_M, S_S, S_M_3Colors, S_Plain, G_Women, G_Men, G_Plain}

MoreTexts == {P_10_Unavailable, P_10_unavailable, P_10_UNAVAILABLE, P_UNAVAILABLE, P_TbdComma, P_TwoTokens, P_NoToken, R_7_5, R_EarlierNumber, R_Bare, R_NoNumber}

CleanerArgs == {None, NaN, PyInt(3), <<"float", 39, 1>>} \cup {PyStr(t) : t \in PageTexts \cup MoreTexts \cup LabelTexts \cup SeqsUpTo(CleanAlphabet, MaxText)}

(***************************************************************************)
(* State                                                                   *)
(*   pc           position: idle, loop (inside scrape_all_pages),          *)
(*                returned, raised, transformed                            *)
(*   calls        the direct calls of fetch_page / parse_page made so far  *)
(*   net          what the session did, in order: GETs and sleeps          *)
(*   clock        wall clock in ticks                                      *)
(*   served       what the site answered for each page of the run          *)
(*   outcome      how scrape_all_pages ended                               *)
(*   raw_data, clean_df   argument and result of transform_data            *)
(*   kept         index labels of clean_df's rows before the index reset   *)
(*   session      what extract_data's scraper did with its session          *)
(*   args         the arguments main passes to run_etl_pipeline             *)
(*   results      the results dictionary of run_etl_pipeline                *)
(*   exit_code    the status main exits with                                *)
(***************************************************************************)
NoResult == <<"none">>

NoArgs == <<"none">>

\* results as run_etl_pipeline initialises it; error is empty while the key is absent
NoResults == [extract |-> [success |-> FALSE], transform |-> [success |-> FALSE], load |-> [success |-> FALSE], error |-> <<>>]

\* arguments fetch_page is tried with: integers around 1..50 and a non-integer
PageArgs == {PyInt(n) : n \in (FIRST_PAGE - 1 - PageMargin)..(LAST_PAGE + PageMargin)} \cup {PyStr(<<"2">>)}

Server == {Ok(b) : b \in ServedBodies} \cup ServerFails

StartPages == {0, 1, 2, 49, 50, 51}

ScrapeRanges == UNION {{<<s, e>> : e \in (s - 1)..(s + MaxPages - 1)} : s \in StartPages}

Init == /\ pc = "idle" /\ calls = <<>> /\ net = <<>> /\ clock \in {0, 1} /\ start_page = 0 /\ end_page = 0 /\ page_num = 0 /\ timestamp = None /\ all_products = <<>> /\ served = <<>> /\ outcome = NoResult /\ raw_data = None /\ clean_df = NoResult /\ kept = <<>> /\ session = <<>> /\ args = NoArgs /\ results = NoResults /\ exit_code = None

FetchPageCall(page, srv) == /\ pc = "idle" /\ Len(calls) < MaxCalls
    /\ calls' = Append(calls, [op |-> "fetch_page", arg |-> page, srv |-> srv, result |-> fetch_page(page, srv), requests |-> FetchRequests(page, srv)])
    /\ net' = net \o FetchRequests(page, srv)
    /\ clock' = clock + Len(FetchRequests(page, srv))
    /\ UNCHANGED <<pc, start_page, end_page, page_num, timestamp, all_products, served, outcome, raw_data, clean_df, kept, session, args, results, exit_code>>

\* parse_page reads and writes no field of the scraper, so one direct call per behaviour covers it
ParsePageCall(html_content) == /\ pc = "idle" /\ calls = <<>>
    /\ calls' = Append(calls, [op |-> "parse_page", arg |-> html_content, result |-> parse_page(html_content)])
    /\ UNCHANGED <<pc, net, clock, start_page, end_page, page_num, timestamp, all_products, served, outcome, raw_data, clean_df, kept, session, args, results, exit_code>>

\* entry of scrape_all_pages: the range check, the accumulator and the run's timestamp
ScrapeEnter(s, e) == /\ pc = "idle"
    /\ start_page' = s /\ end_page' = e
    /\ (IF ScrapeRangeInvalid(s, e)
        THEN (pc' = "raised" /\ outcome' = Raise(Exc("Exception", <<"Error during scraping: ">> \o <<"Invalid page range: ">> \o IntStr(s) \o <<" to ">> \o IntStr(e))) /\ UNCHANGED <<page_num, timestamp, all_products>>)
        ELSE (pc' = "loop" /\ page_num' = s /\ timestamp' = Strftime(clock) /\ all_products' = <<>> /\ UNCHANGED outcome))
    /\ UNCHANGED <<calls, net, clock, served, raw_data, clean_df, kept, args, results, exit_code>>

\* scrape_all_pages called on a scraper of the caller's own
ScrapeBegin(s, e) == ScrapeEnter(s, e) /\ UNCHANGED session

\* one iteration of the loop over range(start_page, end_page + 1); srv is the site's answer
ScrapePageNoCatch(srv) == /\ pc = "loop" /\ page_num <= end_page
    /\ LET r == PageResult(page_num, srv)
           events == FetchRequests(PyInt(page_num), srv) \o PageSleeps(r, page_num, end_page)
       IN /\ all_products' = IF IsOk(r) THEN all_products \o Stamp(r[2], timestamp, clock + Len(FetchRequests(PyInt(page_num), srv))) ELSE all_products
          /\ net' = net \o events
          /\ clock' = clock + Len(events)
          /\ pc' = IF IsOk(r) THEN pc ELSE "raised"
          /\ outcome' = IF IsOk(r) THEN outcome ELSE Raise(Exc("Exception", <<"Error during scraping: ">> \o r[2].msg))
    /\ served' = Append(served, <<page_num, srv>>)
    /\ page_num' = page_num + 1
    /\ UNCHANGED <<calls, start_page, end_page, timestamp, raw_data, clean_df, kept, session, args, results, exit_code>>

ScrapePage(srv) == /\ pc = "loop" /\ page_num <= end_page
    /\ LET r == PageResult(page_num, srv)
           events == FetchRequests(PyInt(page_num), srv) \o PageSleeps(r, page_num, end_page)
       IN /\ all_products' = IF IsOk(r) THEN all_products \o Stamp(r[2], timestamp, clock + Len(FetchRequests(PyInt(page_num), srv))) ELSE all_products
          /\ net' = net \o events
          /\ clock' = clock + Len(events)
    /\ served' = Append(served, <<page_num, srv>>)
    /\ page_num' = page_num + 1
    /\ UNCHANGED <<pc, calls, start_page, end_page, timestamp, outcome, raw_data, clean_df, kept, session, args, results, exit_code>>

ScrapeReturn == /\ pc = "loop" /\ page_num > end_page
    /\ pc' = "returned" /\ outcome' = Ok(all_products)
    /\ UNCHANGED <<calls, net, clock, start_page, end_page, page_num, timestamp, all_products, served, raw_data, clean_df, kept, session, args, results, exit_code>>

NextFetch == Len(calls) < MaxCalls /\ (\E page \in PageArgs, srv \in Server : FetchPageCall(page, srv))

SpecFetch == Init /\ [][NextFetch]_vars

NextParse == calls = <<>> /\ (\E html_content \in Markups : ParsePageCall(html_content))

SpecParse == Init /\ [][NextParse]_vars

\* one call of parse_product on a card
ParseProductCall(card) == /\ pc = "idle" /\ calls = <<>>
    /\ calls' = <<[op |-> "parse_product", arg |-> card, result |-> parse_product(card)]>>
    /\ UNCHANGED <<pc, net, clock, start_page, end_page, page_num, timestamp, all_products, served, outcome, raw_data, clean_df, kept, session, args, results, exit_code>>

\* the arguments load_data is called with: the dataset absent, empty or holding a
\* row; a file name with or without '.csv'; the spreadsheet id and the database
\* URL absent, empty or given
LoadFrames == {None, <<"frame", Frame(columns_order, <<>>, OutputDtypes)>>, <<"frame", Frame(columns_order, <<GoodRow>>, OutputDtypes)>>}

LoadArgs == [csv_filename : {PyStr(F_products_csv), PyStr(F_products_txt)}, google_sheets_id : {None, PyStr(<<>>), PyStr(SHEET_ID)}, postgresql_url : {None, PyStr(<<>>), PyStr(DB_URL)}]

\* `df is None or df.empty`
NoData(d) == d = None \/ d[2].rows = <<>>

\* load_data is entered: an absent or empty dataset raises at once
LoadBegin(d, a) == /\ pc = "idle" /\ args = NoArgs
    /\ clean_df' = d /\ args' = a
    /\ (IF NoData(d)
        THEN (pc' = "load_raised" /\ outcome' = Raise(Exc("ValueError", <<"Load failed: ", "DataFrame is empty or None">>)))
        ELSE (pc' = "load_csv" /\ outcome' = Ok(<<>>)))
    /\ UNCHANGED <<calls, net, clock, start_page, end_page, page_num, timestamp, all_products, served, raw_data, kept, session, results, exit_code>>

\* the CSV block: load_to_csv is always called, its exception is kept in the results
LoadCsvStop(io) == /\ pc = "load_csv"
    /\ (\E r \in {load_to_csv(clean_df[2], args.csv_filename, io)} :
            /\ calls' = Append(calls, [op |-> "load_to_csv", dest |-> "csv", result |-> r])
            /\ outcome' = Ok(SetKey(outcome[2], "csv", DestStatus(r)))
            /\ pc' = IF IsOk(r) THEN "load_sheets" ELSE "load_returned")
    /\ UNCHANGED <<net, clock, start_page, end_page, page_num, timestamp, all_products, served, raw_data, clean_df, kept, session, args, results, exit_code>>

LoadCsv(io) == /\ pc = "load_csv"
    /\ (\E r \in {load_to_csv(clean_df[2], args.csv_filename, io)} :
            /\ calls' = Append(calls, [op |-> "load_to_csv", dest |-> "csv", result |-> r])
            /\ outcome' = Ok(SetKey(outcome[2], "csv", DestStatus(r))))
    /\ pc' = "load_sheets"
    /\ UNCHANGED <<net, clock, start_page, end_page, page_num, timestamp, all_products, served, raw_data, clean_df, kept, session, args, results, exit_code>>

\* the Google Sheets block, entered `if google_sheets_id`
LoadSheets(io) == /\ pc = "load_sheets"
    /\ (IF Truthy(args.google_sheets_id)
        THEN (\E r \in {load_to_google_sheets(clean_df[2], args.google_sheets_id, io)} :
                /\ calls' = Append(calls, [op |-> "load_to_google_sheets", dest |-> "google_sheets", result |-> r])
                /\ outcome' = Ok(SetKey(outcome[2], "google_sheets", DestStatus(r))))
        ELSE UNCHANGED <<calls, outcome>>)
    /\ pc' = "load_pg"
    /\ UNCHANGED <<net, clock, start_page, end_page, page_num, timestamp, all_products, served, raw_data, clean_df, kept, session, args, results, exit_code>>

\* the PostgreSQL block, entered `if postgresql_url`, then return results
LoadPostgres(io) == /\ pc = "load_pg"
    /\ (IF Truthy(args.postgresql_url)
        THEN (\E r \in {load_to_postgresql(clean_df[2], args.postgresql_url, io)} :
                /\ calls' = Append(calls, [op |-> "load_to_postgresql", dest |-> "postgresql", result |-> r])
                /\ outcome' = Ok(SetKey(outcome[2], "postgresql", DestStatus(r))))
        ELSE UNCHANGED <<calls, outcome>>)
    /\ pc' = "load_returned"
    /\ UNCHANGED <<net, clock, start_page, end_page, page_num, timestamp, all_products, served, raw_data, clean_df, kept, session, args, results, exit_code>>

NextLoad ==
    \/ (pc = "idle" /\ (\E d \in LoadFrames, a \in LoadArgs : LoadBegin(d, a)))
    \/ (\E io \in {"ok", "fail"} : LoadCsv(io))
    \/ (\E io \in {"ok", "fail"} : LoadSheets(io))
    \/ (\E io \in {"ok", "fail"} : LoadPostgres(io))

SpecLoad == Init /\ [][NextLoad]_vars

\* one call of validate_transformed_data on a frame
ValidateCall(df) == /\ pc = "idle" /\ calls = <<>>
    /\ calls' = <<[op |-> "validate_transformed_data", absent |-> FALSE, arg |-> df, result |-> validate_transformed_data(df)]>>
    /\ UNCHANGED <<pc, net, clock, start_page, end_page, page_num, timestamp, all_products, served, outcome, raw_data, clean_df, kept, session, args, results, exit_code>>

\* validate_transformed_data(None)
ValidateAbsentCall == /\ pc = "idle" /\ calls = <<>>
    /\ calls' = <<[op |-> "validate_transformed_data", absent |-> TRUE, result |-> validate_absent]>>
    /\ UNCHANGED <<pc, net, clock, start_page, end_page, page_num, timestamp, all_products, served, outcome, raw_data, clean_df, kept, session, args, results, exit_code>>

NextValidate ==
    \/ (calls = <<>> /\ (\E df \in ValidateFrames : ValidateCall(df)))
    \/ ValidateAbsentCall

SpecValidate == Init /\ [][NextValidate]_vars

NextProduct == calls = <<>> /\ (\E card \in ProductCards : ParseProductCall(card))

SpecProduct == Init /\ [][NextProduct]_vars

NextScrape ==
    \/ (\E r \in ScrapeRanges : ScrapeBegin(r[1], r[2]))
    \/ (\E srv \in Server : ScrapePage(srv))
    \/ ScrapeReturn

SpecScrape == Init /\ [][NextScrape]_vars

\* extract_data up to the entry of scrape_all_pages: FashionStudioScraper() opens the session
ExtractBegin(s, e) == session = <<>> /\ session' = <<"open">> /\ ScrapeEnter(s, e)

\* scrape_all_pages returned: scraper.close(), then return products
ExtractClose == /\ pc = "returned" /\ session = <<"open">>
    /\ pc' = "extracted" /\ session' = Append(session, "close")
    /\ UNCHANGED <<calls, net, clock, start_page, end_page, page_num, timestamp, all_products, served, outcome, raw_data, clean_df, kept, args, results, exit_code>>

\* scrape_all_pages raised: control goes straight to the handler, which re-raises
ExtractFail == /\ pc = "raised" /\ session = <<"open">>
    /\ pc' = "extract_failed" /\ outcome' = Raise(Exc("Exception", <<"Extraction failed: ">> \o outcome[2].msg))
    /\ UNCHANGED <<calls, net, clock, start_page, end_page, page_num, timestamp, all_products, served, raw_data, clean_df, kept, session, args, results, exit_code>>

NextExtract ==
    \/ (\E r \in ScrapeRanges : ExtractBegin(r[1], r[2]))
    \/ (\E srv \in Server : ScrapePage(srv))
    \/ ScrapeReturn
    \/ ExtractClose
    \/ ExtractFail

SpecExtract == Init /\ [][NextExtract]_vars

\* the command lines main is run with: a valid or an invalid page range, a CSV name with or without
\* the .csv ending, Google Sheets and PostgreSQL requested or not
PipelineArgs == [start_page : {0, 1}, end_page : {1}, csv_filename : {PyStr(F_products_csv), PyStr(F_products_txt)}, google_sheets_id : {None, PyStr(SHEET_ID)}, postgresql_url : {None, PyStr(DB_URL)}]

IOOutcomes == [{"csv", "google_sheets", "postgresql"} -> {"ok", "fail"}]

PipelineRecords == {SetKey(parse_product(c)[2], "timestamp", PyStr(<<"0">>)) : c \in {CardTshirt, CardUnknown, CardSparse}}

\* how extract_data can end for these arguments: it raises for an invalid range, and otherwise
\* returns what the site's pages held
ExtractResults(a) == IF ScrapeRangeInvalid(a.start_page, a.end_page)
    THEN {Raise(Exc("Exception", <<"Extraction failed: ", "Error during scraping: ", "Invalid page range: ">> \o IntStr(a.start_page) \o <<" to ">> \o IntStr(a.end_page)))}
    ELSE {Ok(recs) : recs \in SeqsUpTo(PipelineRecords, MaxRecords)}

\* main parses the command line and enters run_etl_pipeline, which initialises results
MainStart(a) == /\ pc = "idle" /\ args = NoArgs
    /\ pc' = "extracting" /\ args' = a /\ results' = NoResults
    /\ UNCHANGED <<calls, net, clock, start_page, end_page, page_num, timestamp, all_products, served, outcome, raw_data, clean_df, kept, session, exit_code>>

\* a stage function called by run_etl_pipeline, with its argument and whether it returned
StageCall(op, arg, r) == [op |-> op, arg |-> arg, ok |-> IsOk(r)]

\* the calls of step 2: validate_transformed_data is reached only when transform_data returned
TransformCalls(d, t, v) == <<StageCall("transform_data", d, t)>> \o (IF IsOk(t) THEN <<StageCall("validate_transformed_data", t[2], v)>> ELSE <<>>)

\* step 1: raw_data = extract_data(start_page, end_page); an exception ends the run in the handler
PipelineExtract(x) == /\ pc = "extracting"
    /\ (IF IsRaise(x)
        THEN (pc' = "pipeline_done" /\ results' = [results EXCEPT !.error = x[2].msg] /\ UNCHANGED raw_data)
        ELSE (pc' = "transforming" /\ raw_data' = <<"list", x[2]>> /\ results' = [results EXCEPT !.extract = [success |-> TRUE, records_extracted |-> Len(x[2])]]))
    /\ calls' = Append(calls, StageCall("extract_data", <<args.start_page, args.end_page>>, x))
    /\ UNCHANGED <<net, clock, start_page, end_page, page_num, timestamp, all_products, served, outcome, clean_df, kept, session, args, exit_code>>

\* validate_transformed_data(clean_df) when transform_data returned t
Validated(t) == IF IsOk(t) THEN validate_transformed_data(t[2]) ELSE t

PipelineTransformUnchecked == /\ pc = "transforming"
    /\ (\E t \in {transform_data(raw_data)} : \E v \in {Validated(t)} :
            /\ clean_df' = t
            /\ calls' = calls \o TransformCalls(raw_data, t, v)
            /\ pc' = IF IsRaise(t) THEN "pipeline_done" ELSE "loading"
            /\ results' = IF IsRaise(t) THEN [results EXCEPT !.error = t[2].msg] ELSE [results EXCEPT !.transform = [success |-> TRUE, records_after_cleaning |-> Len(t[2].rows)]])
    /\ kept' = KeptIndex(raw_data)
    /\ UNCHANGED <<net, clock, start_page, end_page, page_num, timestamp, all_products, served, outcome, raw_data, session, args, exit_code>>

\* step 2: clean_df = transform_data(raw_data); validate_transformed_data(clean_df)
PipelineTransform == /\ pc = "transforming"
    /\ (\E t \in {transform_data(raw_data)} : \E v \in {Validated(t)} :
            /\ clean_df' = t
            /\ calls' = calls \o TransformCalls(raw_data, t, v)
            /\ pc' = IF IsRaise(v) THEN "pipeline_done" ELSE "loading"
            /\ results' = IF IsRaise(v) THEN [results EXCEPT !.error = v[2].msg] ELSE [results EXCEPT !.transform = [success |-> TRUE, records_after_cleaning |-> Len(t[2].rows)]])
    /\ kept' = KeptIndex(raw_data)
    /\ UNCHANGED <<net, clock, start_page, end_page, page_num, timestamp, all_products, served, outcome, raw_data, session, args, exit_code>>

\* step 3: load_results = load_data(...); results['load'] = {'success': True, 'destinations': load_results}
PipelineLoad(io) == /\ pc = "loading"
    /\ (\E l \in {load_data(clean_df[2], args, io)} :
            results' = IF IsRaise(l) THEN [results EXCEPT !.error = l[2].msg] ELSE [results EXCEPT !.load = [success |-> TRUE, destinations |-> l[2]]])
    /\ calls' = Append(calls, StageCall("load_data", clean_df[2], load_data(clean_df[2], args, io)))
    /\ pc' = "pipeline_done"
    /\ UNCHANGED <<net, clock, start_page, end_page, page_num, timestamp, all_products, served, outcome, raw_data, clean_df, kept, session, args, exit_code>>

\* main: sys.exit(0) if results.get('load', {}).get('success') else sys.exit(1)
MainExit == /\ pc = "pipeline_done"
    /\ pc' = "exited" /\ exit_code' = (IF results.load.success THEN PyInt(0) ELSE PyInt(1))
    /\ UNCHANGED <<calls, net, clock, start_page, end_page, page_num, timestamp, all_products, served, outcome, raw_data, clean_df, kept, session, args, results>>

NextPipeline ==
    \/ (pc = "idle" /\ (\E a \in PipelineArgs : MainStart(a)))
    \/ (pc = "extracting" /\ (\E x \in ExtractResults(args) : PipelineExtract(x)))
    \/ PipelineTransform
    \/ (pc = "loading" /\ (\E io \in IOOutcomes : PipelineLoad(io)))
    \/ MainExit

SpecPipeline == Init /\ [][NextPipeline]_vars

TransformData(d) == /\ pc = "idle"
    /\ pc' = "transformed" /\ raw_data' = d /\ clean_df' = transform_data(d) /\ kept' = KeptIndex(d)
    /\ UNCHANGED <<calls, net, clock, start_page, end_page, page_num, timestamp, all_products, served, outcome, session, args, results, exit_code>>

NextTransform == pc = "idle" /\ (\E d \in TransformInputs : TransformData(d))

SpecTransform == Init /\ [][NextTransform]_vars

\* one direct call of a field cleaner; the cleaners read and write no state
CleanCall(col, v) == /\ pc = "idle" /\ calls = <<>>
    /\ calls' = <<[op |-> "clean", col |-> col, arg |-> v, result |-> Cleaner(col, v)]>>
    /\ UNCHANGED <<pc, net, clock, start_page, end_page, page_num, timestamp, all_products, served, outcome, raw_data, clean_df, kept, session, args, results, exit_code>>

NextClean == calls = <<>> /\ (\E col \in {"Price", "Rating", "Colors", "Size", "Gender"}, v \in CleanerArgs : CleanCall(col, v))

SpecClean == Init /\ [][NextClean]_vars

(***************************************************************************)
(* Properties of the scraper                                               *)
(***************************************************************************)
ServedOk(entry) == entry[2] \notin ServerFails /\ IsOk(parse_page(entry[2][2]))

\* the records a served page is due to contribute, stamped with ts
PageContribution(entry, ts) == IF ServedOk(entry) THEN LET p == parse_page(entry[2][2])[2] IN [i \in 1..Len(p) |-> SetKey(p[i], "timestamp", ts)] ELSE <<>>

RECURSIVE ExpectedProducts(_, _)
ExpectedProducts(entries, ts) == IF entries = <<>> THEN <<>> ELSE PageContribution(Head(entries), ts) \o ExpectedProducts(Tail(entries), ts)

GetsOf(events) == SelectSeq(events, LAMBDA ev : ev[1] = "get")

ValidRange == FIRST_PAGE <= start_page /\ start_page <= end_page /\ end_page <= LAST_PAGE

C2_BatchTimestamp == (pc \in {"loop", "returned"}) =>
    /\ \A i \in DOMAIN all_products : "timestamp" \in DOMAIN all_products[i] /\ all_products[i]["timestamp"] = timestamp
    /\ \A i, j \in DOMAIN all_products : all_products[i]["timestamp"] = all_products[j]["timestamp"]
    /\ timestamp = Strftime(clock - Len(net))

C2_Witness == /\ pc = "returned" /\ Len(all_products) >= 2
    /\ Strftime(clock) # timestamp
    /\ Cardinality({i \in DOMAIN served : PageContribution(served[i], timestamp) # <<>>}) >= 2

\* C3: scrape_all_pages with start_page < 1, end_page > 50 or start_page > end_page
\* fails with an invalid-range error and no page is fetched before the failure.
C3_InvalidRangeRejected == (pc # "idle" /\ (start_page < 1 \/ end_page > 50 \/ start_page > end_page)) =>
    /\ pc = "raised" /\ IsRaise(outcome)
    /\ Contains(outcome[2].msg, <<"Invalid page range: ">>)
    /\ net = <<>> /\ served = <<>>

C3_Witness == pc = "raised" /\ start_page >= 1 /\ end_page <= 50 /\ start_page > end_page /\ net = <<>>

FetchCalls == {i \in DOMAIN calls : calls[i].op = "fetch_page"}

PageInRange(page) == IsInt(page) /\ page[2] >= 1 /\ page[2] <= 50

\* C4: fetch_page(p) for p outside the integers 1..50 fails with ValueError (the
\* kind declared for bad arguments, not the fetch error kind, not a generic
\* error), and no network request is issued.
C4_InvalidPageIsValueError == \A i \in FetchCalls : ~PageInRange(calls[i].arg) =>
    /\ IsRaise(calls[i].result) /\ calls[i].result[2].kind = "ValueError"
    /\ calls[i].requests = <<>>

\* C5: the politeness delay is taken between every two successive page fetches of
\* a run, whatever the outcome of the earlier page, and not after the last page.
C5_DelayBetweenFetches ==
    /\ (\A i \in 1..(Len(net) - 1) : ~(net[i][1] = "get" /\ net[i + 1][1] = "get"))
    /\ ((pc = "returned" /\ net # <<>>) => net[Len(net)][1] # "sleep")

\* C6: fetch_page with a valid index issues exactly one request; when the request
\* fails the call fails with requests.RequestException, its message naming the
\* page index and the cause, and no second request is made.
C6_FetchErrorNoRetry == \A i \in FetchCalls : PageInRange(calls[i].arg) =>
    /\ Len(calls[i].requests) = 1 /\ Len(net) = Cardinality({j \in FetchCalls : PageInRange(calls[j].arg)})
    /\ calls[i].srv \in ServerFails =>
        /\ IsRaise(calls[i].result) /\ calls[i].result[2].kind = "RequestException"
        /\ Contains(calls[i].result[2].msg, IntStr(calls[i].arg[2]))
        /\ Contains(calls[i].result[2].msg, ServerCause(calls[i].srv))

C6_Witness == \E i \in FetchCalls : PageInRange(calls[i].arg) /\ calls[i].srv = <<"HTTPError">> /\ IsRaise(calls[i].result)

IsNumeral(s) == s # <<>> /\ (\A k \in DOMAIN s : s[k] \in Digits) /\ (Len(s) > 1 => s[1] # "0")

\* C7: fetch_page(1) requests the root address, fetch_page(N) for N in 2..50 the
\* root address followed by 'page{N}', and two different page indices never
\* map to the same address.
C7_PageAddress == \A i \in FetchCalls : PageInRange(calls[i].arg) =>
    LET p == calls[i].arg[2]
        url == calls[i].requests[1][3]
        suffix == SubSeq(url, Len(BASE_URL) + 1, Len(url))
    IN /\ SubSeq(url, 1, Len(BASE_URL)) = BASE_URL
       /\ (p = 1 => suffix = <<>>)
       /\ (p >= 2 => /\ SubSeq(suffix, 1, 4) = <<"p", "a", "g", "e">>
                     /\ IsNumeral(SubSeq(suffix, 5, Len(suffix)))
                     /\ NumeralValue(SubSeq(suffix, 5, Len(suffix))) = p)
       /\ \A q \in 1..50 : q # p => FetchUrl(q) # url

C7_Witness == \E i \in FetchCalls : PageInRange(calls[i].arg) /\ calls[i].arg[2] >= 10 /\ Len(calls[i].requests) = 1

ParseCalls == {i \in DOMAIN calls : calls[i].op = "parse_page"}

CardsOf(html_content) == SelectSeq(html_content[2], LAMBDA n : n.kind = "card")

\* C8: parse_page fails with an invalid-content error when the markup is empty or
\* absent / not text, and with a no-records-found error when the markup is
\* non-empty but has no product card; no record list is returned in either case.
C8_ParseRejects == \A i \in ParseCalls :
    LET html_content == calls[i].arg
        r == calls[i].result
    IN /\ (~IsStr(html_content) \/ html_content = PyStr(<<>>)) => (IsRaise(r) /\ r[2].kind = "ValueError" /\ Contains(r[2].msg, <<"Invalid HTML content provided">>))
       /\ (IsStr(html_content) /\ html_content # PyStr(<<>>) /\ CardsOf(html_content) = <<>>) => (IsRaise(r) /\ r[2].kind = "ValueError" /\ Contains(r[2].msg, <<"No product cards found on the page">>))

C8_Witness == \E i \in ParseCalls : IsStr(calls[i].arg) /\ Len(calls[i].arg[2]) >= 2 /\ CardsOf(calls[i].arg) = <<>> /\ IsRaise(calls[i].result)

TitledCards(html_content) == SelectSeq(CardsOf(html_content), LAMBDA c : c.title # None)

\* C9: for markup with at least one card parse_page returns normally, with exactly
\* one record per card that has a title, in document order; a card without a
\* title is skipped without touching the other cards' records, so the result is
\* no longer than the number of cards and is empty when no card has a title.
C9_UntitledCardsSkipped == \A i \in ParseCalls : (IsStr(calls[i].arg) /\ CardsOf(calls[i].arg) # <<>>) =>
    LET titled == TitledCards(calls[i].arg)
        r == calls[i].result
    IN /\ IsOk(r)
       /\ Len(r[2]) = Len(titled) /\ Len(r[2]) <= Len(CardsOf(calls[i].arg))
       /\ \A k \in DOMAIN titled : r[2][k]["Title"] = PyStr(Strip(titled[k].title[2])) /\ r[2][k] = parse_product(titled[k])[2]

C9_Witness == \E i \in ParseCalls : /\ IsStr(calls[i].arg) /\ Len(CardsOf(calls[i].arg)) >= 3 /\ IsOk(calls[i].result)
    /\ Len(calls[i].result[2]) = 2 /\ calls[i].arg[2][2].title = None

(***************************************************************************)
(* Properties of the transform stage                                       *)
(***************************************************************************)
Transformed == pc = "transformed" /\ IsOk(clean_df)

\* the raw record an output row comes from
RawOf(i) == raw_data[2][kept[i] + 1]

Cleans(raw, col, r) == col \in DOMAIN raw /\ IsOk(r) /\ r[2] # None

\* C10: a dataset returned by transform_data has no two equal rows (over all seven
\* columns, timestamp included), no row titled 'Unknown Product' and no missing
\* value in any column; no output row comes from a raw record for which one of
\* the five cleaners returned missing.
C10_CleanDataset == Transformed =>
    LET rows == clean_df[2].rows
    IN /\ \A i, j \in DOMAIN rows : i # j => rows[i] # rows[j]
       /\ \A i \in DOMAIN rows : rows[i]["Title"] # PyStr(UNKNOWN_PRODUCT)
       /\ \A i \in DOMAIN rows : DOMAIN rows[i] = {"Title", "Price", "Rating", "Colors", "Size", "Gender", "timestamp"}
       /\ \A i \in DOMAIN rows : \A c \in DOMAIN rows[i] : rows[i][c] # None /\ rows[i][c] # NaN
       /\ Len(kept) = Len(rows)
       /\ \A i \in DOMAIN rows :
            /\ kept[i] + 1 \in DOMAIN raw_data[2]
            /\ Cleans(RawOf(i), "Price", clean_price(RawOf(i)["Price"]))
            /\ Cleans(RawOf(i), "Rating", clean_rating(RawOf(i)["Rating"]))
            /\ Cleans(RawOf(i), "Colors", clean_colors(RawOf(i)["Colors"]))
            /\ Cleans(RawOf(i), "Size", clean_size(RawOf(i)["Size"]))
            /\ Cleans(RawOf(i), "Gender", clean_gender(RawOf(i)["Gender"]))

C10_Witness == /\ Transformed /\ Len(raw_data[2]) = 2 /\ Len(clean_df[2].rows) = 1
    /\ raw_data[2][1]["timestamp"] = raw_data[2][2]["timestamp"]
    /\ raw_data[2][1] # raw_data[2][2]
    /\ raw_data[2][1]["Title"] = raw_data[2][2]["Title"]
    /\ clean_price(raw_data[2][1]["Price"]) = clean_price(raw_data[2][2]["Price"])
    /\ kept = <<0>>

TransformCalled == pc = "transformed"

NonEmptyBatch == raw_data # None /\ raw_data[2] # <<>>

\* no cleaner raises on a field that a record of the batch holds
FieldsCleanable == \A i \in DOMAIN raw_data[2] : \A c \in {"Price", "Rating", "Colors", "Size", "Gender"} \cap DOMAIN raw_data[2][i] : IsOk(Cleaner(c, raw_data[2][i][c]))

\* C11: transform_data fails only for an empty or absent input; for a non-empty
\* batch, whose records may lack any of the optional fields, it returns a
\* dataset, a record with an absent or unparseable field costing only its row.
C11_AbsentFieldsDropRows == /\ (TransformCalled /\ ~NonEmptyBatch) => IsRaise(clean_df)
    /\ (TransformCalled /\ NonEmptyBatch /\ FieldsCleanable) => IsOk(clean_df)

(***************************************************************************)
(* Properties of the field cleaners                                        *)
(***************************************************************************)
CleanCalls(col) == {i \in DOMAIN calls : calls[i].op = "clean" /\ calls[i].col = col}

\* C12: each of the five field cleaners returns a typed value or missing for every
\* argument, absent or any text however malformed, and never raises.
C12_CleanersTotal == \A col \in {"Price", "Rating", "Colors", "Size", "Gender"} : \A i \in CleanCalls(col) : IsOk(calls[i].result)

\* x <= n for a float x = <<"float", m, d>>
FloatAtMost(x, n) == x[2] <= n * Pow10(x[3])

\* C16: every non-missing result of clean_rating lies between 0.0 and 5.0.
C16_RatingInRange == \A i \in CleanCalls("Rating") : (IsOk(calls[i].result) /\ calls[i].result[2] # None) => (calls[i].result[2][2] >= 0 /\ FloatAtMost(calls[i].result[2], 5))

ToLower(c) == CASE c = "U" -> "u" [] c = "N" -> "n" [] c = "A" -> "a" [] c = "V" -> "v" [] c = "I" -> "i" [] c = "L" -> "l" [] c = "B" -> "b" [] c = "E" -> "e" [] OTHER -> c

Fold(s) == [k \in DOMAIN s |-> ToLower(s[k])]

SaysUnavailable(s) == Contains(Fold(s), W_unavailable)

\* C18: clean_price returns missing for every text that contains the word
\* 'unavailable' in any letter case, whatever else the text contains.
C18_UnavailableAnyCase == \A i \in CleanCalls("Price") : (IsStr(calls[i].arg) /\ SaysUnavailable(calls[i].arg[2])) => calls[i].result = Ok(None)

\* t reads as digits and grouping commas with an optional decimal part
PriceForm(t) == \E k \in 1..Len(t) : (\A n \in 1..k : t[n] \in Digits \cup {","}) /\ (k = Len(t) \/ (t[k + 1] = "." /\ (\A n \in (k + 2)..Len(t) : t[n] \in Digits)))

PriceTokens(s) == {ij \in (DOMAIN s) \X (DOMAIN s) : ij[1] <= ij[2] /\ PriceForm(SubSeq(s, ij[1], ij[2]))}

\* the first numeric token of s: the leftmost start, and from there the longest reading
FirstPriceToken(s) == LET ij == CHOOSE a \in PriceTokens(s) : \A b \in PriceTokens(s) : a[1] < b[1] \/ (a[1] = b[1] /\ a[2] >= b[2]) IN SubSeq(s, ij[1], ij[2])

DigitsOf(t) == SelectSeq(t, LAMBDA c : c \in Digits)

DecimalsOf(t) == IF \E k \in DOMAIN t : t[k] = "." THEN Len(t) - (CHOOSE k \in DOMAIN t : t[k] = ".") ELSE 0

\* the amount the claim gives for the token t: its value with the commas removed, times the rate
RatedAmount(t) == Normalize(NumeralValue(DigitsOf(t)) * 16000, DecimalsOf(t))

PricedCalls == {i \in CleanCalls("Price") : IsStr(calls[i].arg) /\ calls[i].arg[2] # <<>> /\ ~SaysUnavailable(calls[i].arg[2])}

\* C19: for text that is non-empty and does not say 'unavailable', clean_price
\* returns the first numeric token of the text, commas removed, times 16000, and
\* missing when the text has no such token; the amount is never negative.
C19_PriceOfFirstToken == \A i \in PricedCalls :
    LET s == calls[i].arg[2]
    IN /\ (PriceTokens(s) # {} /\ HasDigit(FirstPriceToken(s))) => calls[i].result = Ok(RatedAmount(FirstPriceToken(s)))
       /\ (PriceTokens(s) = {} \/ ~HasDigit(FirstPriceToken(s))) => calls[i].result = Ok(None)
       /\ (IsOk(calls[i].result) /\ calls[i].result[2] # None) => calls[i].result[2][2] >= 0

\* t reads as a number: digits with an optional decimal part
NumberForm(t) == t # <<>> /\ t[1] \in Digits /\ (\A k \in DOMAIN t : t[k] \in Digits \cup {"."}) /\ Cardinality({k \in DOMAIN t : t[k] = "."}) <= 1

\* after position j come optional whitespace, '/', optional whitespace and '5'
SlashFiveAfter(s, j) == \E p \in (j + 1)..Len(s) : \E q \in (p + 1)..Len(s) :
    s[p] = "/" /\ s[q] = "5" /\ (\A k \in (j + 1)..(p - 1) : s[k] \in Whitespace) /\ (\A k \in (p + 1)..(q - 1) : s[k] \in Whitespace)

NumberTokens(s) == {ij \in (DOMAIN s) \X (DOMAIN s) : ij[1] <= ij[2] /\ NumberForm(SubSeq(s, ij[1], ij[2]))}

SlashFiveTokens(s) == {ij \in NumberTokens(s) : SlashFiveAfter(s, ij[2])}

\* of a non-empty set of tokens, the one with the leftmost start and from there the longest reading
Leftmost(s, toks) == LET ij == CHOOSE a \in toks : \A b \in toks : a[1] < b[1] \/ (a[1] = b[1] /\ a[2] >= b[2]) IN SubSeq(s, ij[1], ij[2])

RatingSaysNone(s) == Contains(s, W_Invalid) \/ Contains(s, W_NotRated)

\* C20: clean_rating returns missing for absent or empty text and for text that
\* contains 'Invalid' or 'Not Rated'; otherwise the number immediately followed
\* by '/5' (optional whitespace around '/') when there is one, even after an
\* earlier number; otherwise the first bare number; missing when there is none.
C20_RatingToken == \A i \in CleanCalls("Rating") :
    LET v == calls[i].arg
        r == calls[i].result
    IN /\ (v = None \/ v = PyStr(<<>>)) => r = Ok(None)
       /\ (IsStr(v) /\ RatingSaysNone(v[2])) => r = Ok(None)
       /\ (IsStr(v) /\ ~RatingSaysNone(v[2]) /\ SlashFiveTokens(v[2]) # {}) => r = Ok(DecimalValue(Leftmost(v[2], SlashFiveTokens(v[2]))))
       /\ (IsStr(v) /\ ~RatingSaysNone(v[2]) /\ SlashFiveTokens(v[2]) = {} /\ NumberTokens(v[2]) # {}) => r = Ok(DecimalValue(Leftmost(v[2], NumberTokens(v[2]))))
       /\ (IsStr(v) /\ ~RatingSaysNone(v[2]) /\ NumberTokens(v[2]) = {}) => r = Ok(None)

C20_Witness == \E i \in CleanCalls("Rating") : /\ IsStr(calls[i].arg) /\ SlashFiveTokens(calls[i].arg[2]) # {}
    /\ Leftmost(calls[i].arg[2], NumberTokens(calls[i].arg[2])) # Leftmost(calls[i].arg[2], SlashFiveTokens(calls[i].arg[2]))
    /\ calls[i].result = Ok(<<"float", 39, 1>>)

\* the positions of s where label stands
Occurrences(s, label) == {p \in DOMAIN s : p + Len(label) - 1 <= Len(s) /\ SubSeq(s, p, p + Len(label) - 1) = label}

\* the occurrences a left-to-right removal takes out: no two overlap, and an
\* occurrence is passed over only when one that starts before it covers its start
LabelCuts(s, label) == CHOOSE P \in SUBSET Occurrences(s, label) :
    /\ \A p, q \in P : p < q => p + Len(label) <= q
    /\ \A q \in Occurrences(s, label) \ P : \E p \in P : p < q /\ q < p + Len(label)

\* the positions of s outside the removed occurrences
KeptPositions(s, label) == {k \in DOMAIN s : ~(\E p \in LabelCuts(s, label) : p <= k /\ k < p + Len(label))}

\* the characters of s at the positions K, in order
Restrict(s, K) == [i \in 1..Cardinality(K) |-> s[CHOOSE k \in K : Cardinality({j \in K : j < k}) = i - 1]]

\* s without its leading and trailing whitespace
Trimmed(s) == IF \A k \in DOMAIN s : s[k] \in Whitespace THEN <<>>
    ELSE SubSeq(s, CHOOSE a \in DOMAIN s : s[a] \notin Whitespace /\ (\A k \in 1..(a - 1) : s[k] \in Whitespace),
                   CHOOSE b \in DOMAIN s : s[b] \notin Whitespace /\ (\A k \in (b + 1)..Len(s) : s[k] \in Whitespace))

TextOrNone(t) == IF t = <<>> THEN Ok(None) ELSE Ok(PyStr(t))

LabelOf(col) == IF col = "Size" THEN L_Size_ ELSE L_Gender_

\* C21: clean_size (and clean_gender, with 'Gender:') returns missing for absent
\* or empty text; otherwise the text with the literal, case-sensitive label taken
\* out and the surrounding whitespace trimmed, or missing when nothing remains;
\* text without the label comes back trimmed, another case of the label stays.
C21_LabelRemoved == \A i \in CleanCalls("Size") \cup CleanCalls("Gender") :
    LET v == calls[i].arg
        r == calls[i].result
        label == LabelOf(calls[i].col)
    IN /\ (v = None \/ v = PyStr(<<>>)) => r = Ok(None)
       /\ (IsStr(v) /\ v[2] # <<>>) => r = TextOrNone(Trimmed(Restrict(v[2], KeptPositions(v[2], label))))
       /\ (IsStr(v) /\ v[2] # <<>> /\ Occurrences(v[2], label) = {}) => r = TextOrNone(Trimmed(v[2]))

C21_Witness == \E i \in CleanCalls("Size") : calls[i].arg = PyStr(S_Padded) /\ calls[i].result = Ok(PyStr(S_Plain))

(***************************************************************************)
(* Properties of parse_product                                             *)
(***************************************************************************)
\* the calls of parse_product on a card that has a title
ProductCalls == {i \in DOMAIN calls : calls[i].op = "parse_product" /\ calls[i].arg.title # None}

\* the texts of the card's detail fragments, in document order
Fragments(card) == [k \in DOMAIN card.details |-> Trimmed(card.details[k])]

Occurs(text, sub) == Occurrences(text, sub) # {}

\* the tests of the first pass in their order
FieldTests == <<<<"Rating", L_Rating_>>, <<"Colors", L_Colors>>, <<"Size", L_Size_>>, <<"Gender", L_Gender_>>>>

Passing(text) == {k \in DOMAIN FieldTests : Occurs(text, FieldTests[k][2])}

\* the field of the first test the text passes
FieldOf(text) == IF Passing(text) = {} THEN "none" ELSE FieldTests[CHOOSE k \in Passing(text) : \A j \in Passing(text) : k <= j][1]

FirstPassMatches(card, f) == {k \in DOMAIN card.details : FieldOf(Fragments(card)[k]) = f}

SecondScanMatches(card) == {k \in DOMAIN card.details : Occurs(Fragments(card)[k], L_Rated) \/ Occurs(Fragments(card)[k], L_Rating)}

TextsAt(card, K) == {PyStr(Fragments(card)[k]) : k \in K}

LastOf(K) == CHOOSE k \in K : \A j \in K : j <= k

\* C25: in the first pass a detail fragment goes to at most one field, that of
\* the first test it passes in the order 'Rating:', 'Colors', 'Size:', 'Gender:';
\* a fragment that passes none is ignored, and the value stored is the fragment's
\* text with its label.
C25_FirstPassFields == \A i \in ProductCalls :
    LET card == calls[i].arg
        r == calls[i].result
    IN /\ IsOk(r)
       /\ \A f \in {"Colors", "Size", "Gender"} :
            IF FirstPassMatches(card, f) = {} THEN f \notin DOMAIN r[2]
            ELSE f \in DOMAIN r[2] /\ r[2][f] \in TextsAt(card, FirstPassMatches(card, f))
       /\ FirstPassMatches(card, "Rating") # {} => ("Rating" \in DOMAIN r[2] /\ r[2]["Rating"] \in TextsAt(card, FirstPassMatches(card, "Rating")))

C25_Witness == \E i \in ProductCalls : /\ \E k \in DOMAIN calls[i].arg.details : calls[i].arg.details[k] = S_M_3Colors
    /\ IsOk(calls[i].result) /\ calls[i].result[2]["Colors"] = PyStr(S_M_3Colors) /\ "Size" \notin DOMAIN calls[i].result[2]

\* C26: the second-chance scan runs only when no fragment contained 'Rating:';
\* it then takes the rating from a fragment containing 'Rated' or 'Rating'.  A
\* rating found by the first pass is never changed, and a card whose fragments
\* pass neither scan gives a record without rating.
C26_SecondChance == \A i \in ProductCalls :
    LET card == calls[i].arg
        r == calls[i].result
        first == FirstPassMatches(card, "Rating")
        second == SecondScanMatches(card)
    IN /\ IsOk(r)
       /\ first # {} => ("Rating" \in DOMAIN r[2] /\ r[2]["Rating"] \in TextsAt(card, first))
       /\ (first = {} /\ second # {}) => ("Rating" \in DOMAIN r[2] /\ r[2]["Rating"] \in TextsAt(card, second))
       /\ (first = {} /\ second = {}) => "Rating" \notin DOMAIN r[2]

C26_Witness == \E i \in ProductCalls : /\ FirstPassMatches(calls[i].arg, "Rating") = {} /\ SecondScanMatches(calls[i].arg) # {}
    /\ IsOk(calls[i].result) /\ calls[i].result[2]["Rating"] = PyStr(R_BareNotRated)

\* C27: when several fragments of a card match the same field, in the first
\* pass or in the second-chance scan, the field holds the text of the last
\* matching fragment in document order.
C27_LastMatchWins == \A i \in ProductCalls :
    LET card == calls[i].arg
        r == calls[i].result
    IN /\ IsOk(r)
       /\ \A f \in {"Rating", "Colors", "Size", "Gender"} : FirstPassMatches(card, f) # {} =>
            (f \in DOMAIN r[2] /\ r[2][f] = PyStr(Fragments(card)[LastOf(FirstPassMatches(card, f))]))
       /\ (FirstPassMatches(card, "Rating") = {} /\ SecondScanMatches(card) # {}) =>
            ("Rating" \in DOMAIN r[2] /\ r[2]["Rating"] = PyStr(Fragments(card)[LastOf(SecondScanMatches(card))]))

C27_Witness == \E i \in ProductCalls : /\ calls[i].arg.details = <<D_RatingColors, C_3, R_3_9>>
    /\ IsOk(calls[i].result) /\ calls[i].result[2]["Rating"] = PyStr(R_3_9)

(***************************************************************************)
(* Properties of the transform stage, continued                            *)
(***************************************************************************)
\* a record that already holds the typed clean values
IsCleanRecord(r) == /\ DOMAIN r = {"Title", "Price", "Rating", "Colors", "Size", "Gender", "timestamp"}
    /\ IsStr(r["Title"]) /\ r["Title"] # PyStr(UNKNOWN_PRODUCT)
    /\ r["Price"][1] = "float" /\ r["Rating"][1] = "float" /\ IsInt(r["Colors"])
    /\ IsStr(r["Size"]) /\ IsStr(r["Gender"]) /\ IsStr(r["timestamp"])

\* the batch is a clean dataset: clean records, no two equal
AlreadyClean == /\ NonEmptyBatch
    /\ (\A i \in DOMAIN raw_data[2] : IsCleanRecord(raw_data[2][i]))
    /\ (\A i, j \in DOMAIN raw_data[2] : i # j => raw_data[2][i] # raw_data[2][j])

\* C15: transform_data on an already clean dataset returns the same rows: no row
\* is dropped and no value is changed.
C15_CleanInputUnchanged == (TransformCalled /\ AlreadyClean) => (IsOk(clean_df) /\ clean_df[2].rows = raw_data[2])

\* C17: every title of a dataset returned by transform_data is a non-empty string
\* other than 'Unknown Product'.
C17_TitlesNonEmpty == Transformed => (\A i \in DOMAIN clean_df[2].rows : IsStr(clean_df[2].rows[i]["Title"]) /\ clean_df[2].rows[i]["Title"] # PyStr(<<>>) /\ clean_df[2].rows[i]["Title"] # PyStr(UNKNOWN_PRODUCT))

SevenColumns == <<"Title", "Price", "Rating", "Colors", "Size", "Gender", "timestamp">>

\* C22: every dataset returned by transform_data has exactly the seven columns
\* Title, Price, Rating, Colors, Size, Gender, timestamp in that order, whatever
\* extra keys the input records carry, with Price and Rating floating-point,
\* Colors integral, and Title, Size, Gender strings.
C22_ColumnsAndTypes == Transformed =>
    /\ clean_df[2].columns = SevenColumns
    /\ clean_df[2].dtypes["Price"] = "float64" /\ clean_df[2].dtypes["Rating"] = "float64" /\ clean_df[2].dtypes["Colors"] = "int64"
    /\ \A c \in {"Title", "Size", "Gender"} : clean_df[2].dtypes[c] = "object"
    /\ \A i \in DOMAIN clean_df[2].rows :
         /\ DOMAIN clean_df[2].rows[i] = {SevenColumns[k] : k \in DOMAIN SevenColumns}
         /\ clean_df[2].rows[i]["Price"][1] = "float" /\ clean_df[2].rows[i]["Rating"][1] = "float"
         /\ IsInt(clean_df[2].rows[i]["Colors"])
         /\ \A c \in {"Title", "Size", "Gender"} : IsStr(clean_df[2].rows[i][c])

C22_Witness == Transformed /\ clean_df[2].rows # <<>>
    /\ (\E i \in DOMAIN raw_data[2] : "Brand" \in DOMAIN raw_data[2][i])
    /\ (\E j \in DOMAIN raw_data[2] : "Brand" \notin DOMAIN raw_data[2][j])

\* the row transform_data returns for the record alone, when it returns one
RowAlone(record, row) == \E t \in {transform_data(<<"list", <<record>>>>)} : IsOk(t) /\ t[2].rows = <<row>>

\* the records of the batch hold the same keys, so that a record is cleaned in
\* the batch as it is alone
SameKeys == \A i, j \in DOMAIN raw_data[2] : DOMAIN raw_data[2][i] = DOMAIN raw_data[2][j]

\* C30: duplicates are removed after cleaning, on the cleaned values: records
\* whose seven cleaned values are equal give a single output row, records that
\* differ in timestamp are both kept; of equal rows the first occurrence is
\* kept, the surviving rows keep their input order, and the output is never
\* longer than the input.
C30_DedupOnCleanValues == Transformed =>
    /\ \A i, j \in DOMAIN clean_df[2].rows : i # j => clean_df[2].rows[i] # clean_df[2].rows[j]
    /\ Len(clean_df[2].rows) <= Len(raw_data[2]) /\ Len(kept) = Len(clean_df[2].rows)
    /\ \A i, j \in DOMAIN kept : i < j => kept[i] < kept[j]
    /\ SameKeys => \A i \in DOMAIN kept : \A k \in 1..kept[i] : ~RowAlone(raw_data[2][k], clean_df[2].rows[i])
    /\ SameKeys => \A i, j \in DOMAIN raw_data[2] :
         (i < j /\ \E a, b \in DOMAIN clean_df[2].rows : a # b /\ RowAlone(raw_data[2][i], clean_df[2].rows[a]) /\ RowAlone(raw_data[2][j], clean_df[2].rows[b]))
            => (\E a, b \in DOMAIN kept : kept[a] = i - 1 /\ kept[b] = j - 1)

\* C28: every non-empty dataset returned by transform_data passes
\* validate_transformed_data; validation of a transform output fails only when
\* the output is empty.
C28_OutputValidates == Transformed =>
    (IsOk(validate_transformed_data(clean_df[2])) <=> clean_df[2].rows # <<>>)

(***************************************************************************)
(* Properties of validate_transformed_data                                 *)
(***************************************************************************)
ValidateCalls == {i \in DOMAIN calls : calls[i].op = "validate_transformed_data" /\ ~calls[i].absent}

FloatingTypes == {"float16", "float32", "float64"}

IntegralTypes == {"int8", "int16", "int32", "int64"}

HasColumns(df) == \A k \in DOMAIN SevenColumns : \E n \in DOMAIN df.columns : df.columns[n] = SevenColumns[k]

\* the first condition the frame breaks, in the order of the checks
FirstFault(df, types_ok) ==
    IF Len(df.rows) = 0 \/ Len(df.columns) = 0 THEN "empty"
    ELSE IF ~HasColumns(df) THEN "columns"
    ELSE IF \E i \in DOMAIN df.rows : \E c \in DOMAIN df.rows[i] : df.rows[i][c] \in {None, NaN} THEN "nulls"
    ELSE IF \E i, j \in DOMAIN df.rows : i # j /\ df.rows[i] = df.rows[j] THEN "duplicates"
    ELSE IF \E i \in DOMAIN df.rows : df.rows[i]["Title"] = PyStr(UNKNOWN_PRODUCT) THEN "sentinel"
    ELSE IF ~types_ok THEN "types"
    ELSE "none"

\* what the failure reports
Reported(r) == IF IsOk(r) THEN "none"
    ELSE IF r[2].msg[2] = "DataFrame is empty or None" THEN "empty"
    ELSE IF r[2].msg[2] = "Missing required columns" THEN "columns"
    ELSE IF r[2].msg[2] = "DataFrame contains null values" THEN "nulls"
    ELSE IF r[2].msg[2] = "DataFrame contains duplicate rows" THEN "duplicates"
    ELSE IF r[2].msg[2] = "DataFrame contains 'Unknown Product' entries" THEN "sentinel"
    ELSE IF r[2].msg[2] \in {"Price column should be float", "Rating column should be float", "Colors column should be int"} THEN "types"
    ELSE "other"

\* typed columns are there and floating-point, floating-point, integral
ClaimedTypes(df) == HasColumns(df) => (df.dtypes["Price"] \in FloatingTypes /\ df.dtypes["Rating"] \in FloatingTypes /\ df.dtypes["Colors"] \in IntegralTypes)

\* typed columns are there and float64, float64, int64 or int32
CheckedTypes(df) == HasColumns(df) => (df.dtypes["Price"] = "float64" /\ df.dtypes["Rating"] = "float64" /\ df.dtypes["Colors"] \in {"int64", "int32"})

\* C23 as stated: validate_transformed_data returns true exactly when the
\* dataset is non-empty, has the seven columns, no null cell, no duplicate row,
\* no 'Unknown Product' title, floating-point Price and Rating and integral
\* Colors; otherwise it fails, reporting the first broken condition in the
\* order empty, missing columns, null values, duplicates, sentinel, types.
C23_ValidateAsClaimed == \A i \in ValidateCalls :
    /\ (calls[i].result = Ok(TRUE)) <=> (FirstFault(calls[i].arg, ClaimedTypes(calls[i].arg)) = "none")
    /\ Reported(calls[i].result) = FirstFault(calls[i].arg, ClaimedTypes(calls[i].arg))

\* C23: validate_transformed_data returns true exactly when the dataset is
\* non-empty, has the seven columns, no null cell, no duplicate row, no
\* 'Unknown Product' title, Price and Rating of type float64 and Colors of type
\* int64 or int32; otherwise it fails, reporting the first broken condition in
\* the order empty, missing columns, null values, duplicates, sentinel, types.
\* An absent dataset fails as an empty one.
C23_ValidateExactly ==
    /\ \A i \in ValidateCalls :
         /\ (calls[i].result = Ok(TRUE)) <=> (FirstFault(calls[i].arg, CheckedTypes(calls[i].arg)) = "none")
         /\ Reported(calls[i].result) = FirstFault(calls[i].arg, CheckedTypes(calls[i].arg))
         /\ IsRaise(calls[i].result) => (calls[i].result[2].kind = "ValueError" /\ calls[i].result[2].msg[1] = "Data validation failed: ")
    /\ \A i \in DOMAIN calls : (calls[i].op = "validate_transformed_data" /\ calls[i].absent) => Reported(calls[i].result) = "empty"

\* a frame that breaks three conditions fails with the first of them
C23_Witness == \E i \in ValidateCalls :
    /\ calls[i].arg.columns = SevenColumns /\ calls[i].arg.rows = <<NullSentinelRow>> /\ calls[i].arg.dtypes["Price"] = "object"
    /\ Reported(calls[i].result) = "nulls"

(***************************************************************************)
(* Properties of load_data                                                 *)
(***************************************************************************)
LoadRunning == pc \in {"load_csv", "load_sheets", "load_pg", "load_returned"}

Given(v) == v # None /\ v # PyStr(<<>>)

\* the destinations the arguments ask for, in the order they are attempted
Asked(a) == <<"csv">> \o (IF Given(a.google_sheets_id) THEN <<"google_sheets">> ELSE <<>>) \o (IF Given(a.postgresql_url) THEN <<"postgresql">> ELSE <<>>)

Attempted == [i \in DOMAIN calls |-> calls[i].dest]

\* C24: on a non-empty dataset load_data always attempts the CSV destination,
\* the spreadsheet only when an id is given and the database only when a URL is
\* given; a destination's failure is recorded as success false with the error,
\* never stops the later destinations nor makes load_data raise, and the result
\* has one entry per attempted destination.  On an empty or absent dataset
\* load_data fails before any destination is attempted.
C24_LoadAttempts ==
    /\ LoadRunning => (~NoData(clean_df) /\ IsOk(outcome) /\ DOMAIN outcome[2] = {Attempted[i] : i \in DOMAIN Attempted})
    /\ LoadRunning => \A i \in DOMAIN calls :
          /\ outcome[2][calls[i].dest].success = IsOk(calls[i].result)
          /\ IsRaise(calls[i].result) => outcome[2][calls[i].dest].error = calls[i].result[2].msg
    /\ LoadRunning => (\E n \in 0..Len(Asked(args)) : Attempted = SubSeq(Asked(args), 1, n))
    /\ pc = "load_returned" => Attempted = Asked(args)
    /\ pc = "load_raised" => (NoData(clean_df) /\ calls = <<>> /\ IsRaise(outcome) /\ outcome[2].kind = "ValueError")

C24_Witness == /\ pc = "load_returned" /\ Attempted = <<"csv", "google_sheets", "postgresql">>
    /\ ~outcome[2]["csv"].success /\ ~outcome[2]["google_sheets"].success /\ outcome[2]["postgresql"].success

(***************************************************************************)
(* Properties of extract_data                                              *)
(***************************************************************************)
ExtractEnded == pc \in {"extracted", "extract_failed"}

\* C14: the session extract_data's scraper opens is closed exactly once by the
\* time the run ends, both when scrape_all_pages returns and when it raises.
C14_SessionReleased == ExtractEnded => session = <<"open", "close">>

(***************************************************************************)
(* Properties of the pipeline driver                                       *)
(***************************************************************************)
Exited == pc = "exited"

ValidationPassed == results.transform.success

\* a destination load_data attempted for this run kept the dataset
SomeDestinationSucceeded == results.load.success /\ (\E dest \in DOMAIN results.load.destinations : results.load.destinations[dest].success)

\* C13: the run exits with code 0 only when validation passed and at least one
\* requested destination succeeded; it exits non-zero whenever validation failed
\* or every requested destination failed.
C13_ExitCode == Exited => (exit_code = PyInt(0) <=> (ValidationPassed /\ SomeDestinationSucceeded))

StageOrder == <<"extract_data", "transform_data", "validate_transformed_data", "load_data">>

\* the results key a stage function reports under
StageKey(op) == IF op = "extract_data" THEN "extract" ELSE IF op = "load_data" THEN "load" ELSE "transform"

StageOps == [i \in DOMAIN calls |-> calls[i].op]

PipelineReturned == pc \in {"pipeline_done", "exited"}

StageFailed == \E i \in DOMAIN calls : ~calls[i].ok

\* the stage functions that have not run, or ran and failed
NotPassed == {StageOrder[k] : k \in {k \in 1..4 : k > Len(calls) \/ ~calls[k].ok}}

\* C29: run_etl_pipeline calls its stages in the order extract, transform,
\* validate, load, each only after every earlier one returned; load_data gets
\* exactly the dataset that validate_transformed_data accepted; the run always
\* returns results, with 'error' set exactly when a stage failed and the success
\* flags of the failed stage and of all later stages false.
C29_StagesInOrder ==
    /\ Len(calls) <= 4 /\ StageOps = SubSeq(StageOrder, 1, Len(calls))
    /\ \A i \in DOMAIN calls : i > 1 => calls[i - 1].ok
    /\ Len(calls) = 4 => calls[4].arg = calls[3].arg
    /\ PipelineReturned => /\ Len(calls) >= 1 /\ (StageFailed \/ Len(calls) = 4)
                           /\ (results.error # <<>>) <=> StageFailed
                           /\ \A op \in NotPassed : ~results[StageKey(op)].success
                           /\ \A key \in {"extract", "transform", "load"} : results[key].success <=> (\A op \in NotPassed : StageKey(op) # key)

C29_Witness == /\ PipelineReturned /\ StageOps = SubSeq(StageOrder, 1, 3) /\ ~calls[3].ok
    /\ results.error # <<>> /\ results.extract.success /\ ~results.transform.success /\ ~results.load.success

====
